---- MODULE Spec2Model ----
(***************************************************************************)
(* Capability Certifier (src/langchain_capability_certifier.py): the job   *)
(* runner, its control-plane handlers, grading and the Wilson interval.    *)
(*                                                                         *)
(* Conventions.                                                            *)
(*  - A text that the code normalises (answers, predictions) is a sequence *)
(*    of one-character strings; texts that are only carried around         *)
(*    (questions, ids) are plain strings.                                  *)
(*  - A float that the code rounds to 4 places (round(x, 4)) is the        *)
(*    integer 10000 * x; a threshold is held in the same unit.             *)
(*  - A Python dict is a function whose domain is its set of keys.         *)
(*  - Wall-clock fields (ts, requested_at, expires_at) and the pacing      *)
(*    sleep are not modelled: time plays no part in any transition.        *)
(***************************************************************************)
EXTENDS Integers, Sequences, FiniteSets, TLC

VARIABLES
    jobsLog,      \* JOBS_FILE: sequence of job records
    resultsLog,   \* RESULTS_FILE: sequence of trial records
    certsLog,     \* CERTS_FILE: sequence of certificates
    evidence,     \* EVIDENCE_DIR: evidence path -> sequence of trial records
    progress,     \* JobRunner._progress: job id -> dict
    threads,      \* JobRunner._threads: job id -> state of the job's thread
    handler,      \* position of the request handler (handle)
    issued,       \* job ids that a start response has carried to a client
    calls,        \* calls made to the target agent: job id -> sequence of
                  \* [question, raised], raised: the call ended in an exception
    telemetryLog, \* observer TELEMETRY_FILE: sequence of telemetry events
    probeLog,     \* observer PROBE_RUNS_FILE: sequence of probe runs
    reputationLog,\* observer REPUTATION_FILE: sequence of reputation snapshots
    posts,        \* requests.post calls of the observer to CERTIFIER_A2A, in
                  \* order: [body, outcome]
    probing,      \* the run_probe call in progress, or NotProbing
    reputing,     \* the reputation request in progress, or NotReputing
    weights,      \* W_AVAIL, W_PROBE, W_CERT, W_FLAGS as read from the environment
    evaluation    \* a call of one of the module's functions on its own, outside
                  \* any job: [fn, args, returned, value], or NoEvaluation

\* The state of the certifier process and of the observer process; CERTS_FILE
\* (certsLog) is written by the first and read by the second.
certVars == <<jobsLog, resultsLog, certsLog, evidence, progress, threads,
              handler, issued, calls, evaluation>>

obsVars == <<telemetryLog, probeLog, reputationLog, posts, probing, reputing, weights,
             evaluation>>

vars == <<jobsLog, resultsLog, certsLog, evidence, progress, threads,
          handler, issued, calls, telemetryLog, probeLog, reputationLog,
          posts, probing, reputing, weights, evaluation>>

----------------------------------------------------------------------------
(* Bounds of the model *)

\* Largest total of trials the start requests of one run ask for.
MaxTrials == 2

\* Smallest n a start request carries (int(req.get("n")) accepts any integer).
MinN == 0 - 1

\* The ids uuid4 hands out, in the order they are handed out.
JobIds == <<"job_1", "job_2">>

Agents == {"agent_a"}

Max(a, b) == IF a >= b THEN a ELSE b
Min(a, b) == IF a <= b THEN a ELSE b

----------------------------------------------------------------------------
(* Configuration *)

SECRET == "dev-secret-change-me"

DEFAULT_ENDPOINT == "http://127.0.0.1:6001/a2a"

\* float(req.get("pass_threshold", 0.8)), in units of 1/10000
DEFAULT_PASS_THRESHOLD == 8000

----------------------------------------------------------------------------
(* Texts *)

Range(t) == { t[k] : k \in 1..Len(t) }

IsSpace(c) == c \in {" ", "\t", "\n"}

\* str.lower on the letters the model's texts use
Lower(c) ==
    CASE c = "A" -> "a" [] c = "B" -> "b" [] c = "C" -> "c" [] c = "D" -> "d"
      [] c = "E" -> "e" [] c = "I" -> "i" [] c = "N" -> "n" [] c = "O" -> "o"
      [] c = "R" -> "r" [] c = "X" -> "x" [] OTHER -> c

LowerText(t) == [k \in 1..Len(t) |-> Lower(t[k])]

\* str.strip: drop leading and trailing whitespace
RECURSIVE LStrip(_)
LStrip(t) ==
    IF t # <<>> /\ IsSpace(Head(t)) THEN LStrip(Tail(t)) ELSE t

RECURSIVE RStrip(_)
RStrip(t) ==
    IF t # <<>> /\ IsSpace(t[Len(t)]) THEN RStrip(SubSeq(t, 1, Len(t) - 1)) ELSE t

Strip(t) == RStrip(LStrip(t))

\* str.split(): the maximal runs of non-whitespace, in order
RECURSIVE SplitFrom(_, _, _)
SplitFrom(t, cur, acc) ==
    IF t = <<>>
    THEN IF cur = <<>> THEN acc ELSE Append(acc, cur)
    ELSE IF IsSpace(Head(t))
         THEN SplitFrom(Tail(t), <<>>, IF cur = <<>> THEN acc ELSE Append(acc, cur))
         ELSE SplitFrom(Tail(t), Append(cur, Head(t)), acc)

Split(t) == SplitFrom(t, <<>>, <<>>)

\* " ".join(tokens)
RECURSIVE Join(_)
Join(tokens) ==
    IF tokens = <<>> THEN <<>>
    ELSE IF Len(tokens) = 1 THEN tokens[1]
    ELSE tokens[1] \o <<" ">> \o Join(Tail(tokens))

\* normalize(txt) = " ".join(txt.strip().lower().split())
normalize(txt) == Join(Split(LowerText(Strip(txt))))

----------------------------------------------------------------------------
(* Grading *)

grade_math_exact(pred, gold) ==
    IF normalize(pred) = normalize(gold) THEN 1 ELSE 0

\* The token counts <<tp, |p|, |g|>> whose F1 is 3/5 on the reals and for which
\* the double 2*precision*recall/(precision+recall) of lines 103-105 is
\* 0.5999999999999999, below the double 0.6; every other tie of up to 24
\* tokens a side computes to the double 0.6 itself (worked out with CPython
\* floats).
F1TiesShort == { <<9, 13, 17>>, <<9, 17, 13>> }

\* f1_score as <<numerator, denominator, short>> (0.0 is <<0, 1, 0>>):
\* precision = tp/|p|, recall = tp/|g|, F1 = 2*precision*recall/(precision+recall);
\* the fraction is taken over the common denominator |p|*|g|, and short is 1
\* when the double computed falls below the one nearest to the fraction.
f1_score(pred, gold) ==
    LET p_set == Range(Split(normalize(pred)))
        g_set == Range(Split(normalize(gold)))
        tp    == Cardinality(p_set \cap g_set)
        np    == Cardinality(p_set)
        ng    == Cardinality(g_set)
    IN  IF p_set = {} \/ g_set = {} THEN <<0, 1, 0>>
        ELSE IF tp = 0 THEN <<0, 1, 0>>
        ELSE <<2 * tp * tp, tp * ng + tp * np,
               IF <<tp, np, ng>> \in F1TiesShort THEN 1 ELSE 0>>

\* f1 >= 0.6 on doubles: the double 0.6 is the one nearest to 3/5
F1AtLeastSixTenths(f) ==
    \/ 10 * f[1] > 6 * f[2]
    \/ 10 * f[1] = 6 * f[2] /\ f[3] = 0

grade_item(capability, pred, gold) ==
    IF capability = "math.g1_g12"
    THEN grade_math_exact(pred, gold)
    ELSE IF F1AtLeastSixTenths(f1_score(pred, gold)) THEN 1 ELSE 0

----------------------------------------------------------------------------
(* Rounding and the Wilson interval.                                       *)
(*                                                                         *)
(* round(x, 4) of a float x is the integer nearest to 10000 * x, ties to   *)
(* the even one.  wilson_ci is computed on exact reals and then rounded:   *)
(* with z = 1.96 = 49/25,                                                  *)
(*    center - margin = (WA - sqrt(WX)) / WB                               *)
(*    center + margin = (WA + sqrt(WX)) / WB                               *)
(* where WA = n(1250 s + 2401), WB = 2n(625 n + 2401) and                  *)
(* WX = 2401 (2500 s n (n - s) + 2401 n^2), which is lines 52-55 brought   *)
(* over the common denominator.  Every comparison of the square root with  *)
(* a rational is decided exactly on integers below 2^31, which limits the  *)
(* operators to n <= 7.                                                    *)

\* round(num / den, 4) in units of 1/10000, den > 0, num >= 0
Round4(num, den) ==
    LET q == (10000 * num) \div den
        r == (10000 * num) % den
    IN  IF 2 * r < den THEN q
        ELSE IF 2 * r > den THEN q + 1
        ELSE IF q % 2 = 0 THEN q ELSE q + 1

\* floor(sqrt(x)) by bisection on lo..hi, lo*lo <= x < (hi+1)*(hi+1)
RECURSIVE ISqrtIn(_, _, _)
ISqrtIn(x, lo, hi) ==
    IF lo >= hi THEN lo
    ELSE LET mid == (lo + hi + 1) \div 2
         IN  IF mid * mid <= x THEN ISqrtIn(x, mid, hi) ELSE ISqrtIn(x, lo, mid - 1)

ISqrt(x) == ISqrtIn(x, 0, 46340)

WA(s, n) == n * (1250 * s + 2401)
WB(s, n) == 2 * n * (625 * n + 2401)
WX(s, n) == 2401 * (2500 * s * n * (n - s) + 2401 * n * n)

\* 20000 * sqrt(x) <= w, decided exactly
SqrtLe(x, w) ==
    IF w < 0 THEN FALSE
    ELSE LET r == ISqrt(x)
             q == w \div 20000
             c == w % 20000
             L == 20000 * (x - q * q) - 2 * q * c
         IN  IF r < q THEN TRUE
             ELSE IF r > q THEN FALSE
             ELSE IF L <= 0 THEN TRUE
             ELSE IF L > 20000 THEN FALSE
             ELSE 20000 * L <= c * c

\* 20000 * sqrt(x) >= w, decided exactly
SqrtGe(x, w) ==
    IF w <= 0 THEN TRUE
    ELSE LET r == ISqrt(x)
             q == w \div 20000
             c == w % 20000
             L == 20000 * (x - q * q) - 2 * q * c
         IN  IF r < q THEN FALSE
             ELSE IF r > q THEN TRUE
             ELSE IF L <= 0 THEN L = 0 /\ c = 0
             ELSE IF L > 20000 THEN TRUE
             ELSE 20000 * L >= c * c

\* floor(10000 * a / b) for a >= 0 (0 for a < 0), without leaving 32 bits
Scaled(a, b) ==
    IF a < 0 THEN 0 ELSE 10000 * (a \div b) + (10000 * (a % b)) \div b

\* center + margin >= m/20000 (hi), center - margin >= m/20000 (not hi)
WilsonGe(hi, s, n, m) ==
    IF hi THEN SqrtGe(WX(s, n), m * WB(s, n) - 20000 * WA(s, n))
    ELSE SqrtLe(WX(s, n), 20000 * WA(s, n) - m * WB(s, n))

\* center + margin <= m/20000 (hi), center - margin <= m/20000 (not hi)
WilsonLe(hi, s, n, m) ==
    IF hi THEN SqrtLe(WX(s, n), m * WB(s, n) - 20000 * WA(s, n))
    ELSE SqrtGe(WX(s, n), 20000 * WA(s, n) - m * WB(s, n))

\* round(v, 4) in units of 1/10000 for the end v of the interval, clamped to
\* [0, 1]: the nearest integer to 10000 * v, ties to even, searched from k0.
WilsonRound(hi, s, n, k0) ==
    LET cand == { k \in Max(0, k0 - 1)..Min(10000, k0 + 4) :
                    k = 0 \/ WilsonGe(hi, s, n, 2 * k - 1) }
        k    == CHOOSE c \in cand : \A d \in cand : d <= c
    IN  IF k > 0 /\ WilsonLe(hi, s, n, 2 * k - 1) /\ k % 2 = 1 THEN k - 1 ELSE k

\* round(max(0.0, center - margin), 4)
WilsonLo(s, n) ==
    WilsonRound(FALSE, s, n, Scaled(WA(s, n) - ISqrt(WX(s, n)) - 1, WB(s, n)))

\* round(min(1.0, center + margin), 4)
WilsonHi(s, n) ==
    WilsonRound(TRUE, s, n, Scaled(WA(s, n) + ISqrt(WX(s, n)), WB(s, n)))

\* Both ends for every (successes, n) the operators cover, worked out once.
WilsonTable ==
    [n \in 1..7 |-> [s \in 0..n |-> <<WilsonLo(s, n), WilsonHi(s, n)>>]]

\* Variant: the two ends are returned in the opposite order.
wilson_ci_swapped(successes, n) ==
    IF n = 0 THEN <<0, 0>>
    ELSE <<WilsonTable[n][successes][2], WilsonTable[n][successes][1]>>

RECURSIVE GCD(_, _)
GCD(a, b) == IF b = 0 THEN a ELSE GCD(b, a % b)

\* Variant: the interval is that of the rate in lowest terms, whatever the
\* number of trials.
wilson_ci_of_rate(successes, n) ==
    IF n = 0 THEN <<0, 0>>
    ELSE WilsonTable[n \div GCD(successes, n)][successes \div GCD(successes, n)]

\* wilson_ci(successes, n), both ends rounded as the certificate rounds them
wilson_ci(successes, n) ==
    IF n = 0 THEN <<0, 0>> ELSE WilsonTable[n][successes]

----------------------------------------------------------------------------
(* Test bank *)

SAMPLE_TESTS == <<
    [capability |-> "math.g1_g12", topic |-> "algebra",
     question |-> "Solve for x: 2x + 3 = 9", answer |-> <<"3">>],
    [capability |-> "math.g1_g12", topic |-> "geometry",
     question |-> "What is the sum of interior angles of a triangle?",
     answer |-> <<"1", "8", "0">>],
    [capability |-> "math.g1_g12", topic |-> "calc",
     question |-> "Derivative of x^2?", answer |-> <<"2", "x">>],
    [capability |-> "qa.general", topic |-> "science",
     question |-> "What gas do plants primarily absorb during photosynthesis?",
     answer |-> <<"c", "a", "r", "b", "o", "n", " ", "d", "i", "o", "x", "i", "d", "e">>] >>

\* Variant: the capability filter is dropped.
load_tests_unfiltered(capabilities) == SAMPLE_TESTS

load_tests_for(capabilities) ==
    SelectSeq(SAMPLE_TESTS, LAMBDA t : t.capability \in Range(capabilities))

\* seq * k
RECURSIVE Repeat(_, _)
Repeat(seq, k) == IF k <= 0 THEN <<>> ELSE seq \o Repeat(seq, k - 1)

\* seq[:n]
SliceTo(seq, n) ==
    IF n >= 0 THEN SubSeq(seq, 1, Min(n, Len(seq)))
    ELSE SubSeq(seq, 1, Max(0, Len(seq) + n))

\* Variant: the bank is not repeated before it is cut.
SampleOfOnce(tests, n) == SliceTo(tests, n)

\* (tests * ((n // len(tests)) + 1))[:n], tests non-empty
SampleOf(tests, n) == SliceTo(Repeat(tests, (n \div Len(tests)) + 1), n)

----------------------------------------------------------------------------
(* The target agent, as call_agent_a2a sees it *)

\* pred = f"<error: {e}>": the message of the exception is not modelled
ErrorText == <<"<", "e", "r", "r", "o", "r", ">">>

Upper(c) ==
    CASE c = "a" -> "A" [] c = "b" -> "B" [] c = "c" -> "C" [] c = "d" -> "D"
      [] c = "e" -> "E" [] c = "i" -> "I" [] c = "n" -> "N" [] c = "o" -> "O"
      [] c = "r" -> "R" [] c = "x" -> "X" [] OTHER -> c

\* What an agent may answer to an item: the expected answer in another case
\* and padded with whitespace, or something else.
AgentTexts(item) ==
    { <<" ">> \o [k \in 1..Len(item.answer) |-> Upper(item.answer[k])] \o <<" ", "\n">>,
      <<"4", "2">> }

\* requests.post raising (transport error, timeout), raise_for_status raising
\* (non-2xx), or a reply text
AgentOutcomes(item) ==
    { [raised |-> TRUE, why |-> w, text |-> <<>>] : w \in {"unreachable", "timeout", "http_error"} }
    \cup { [raised |-> FALSE, why |-> "", text |-> t] : t \in AgentTexts(item) }

----------------------------------------------------------------------------
(* Requests *)

\* capabilities of a start request; <<>> is a missing or empty list
CapsInputs == { <<>>, <<"math.g1_g12">>, <<"qa.general">>, <<"none.such">> }

NInputs == MinN..MaxTrials

\* pass_threshold of a start request, in units of 1/10000: missing (the
\* default applies) or 0.0
PassInputs == { DEFAULT_PASS_THRESHOLD, 0 }

StartRequests ==
    [agent_id : Agents, capabilities : CapsInputs, n : NInputs, pass_threshold : PassInputs]

\* an id no start response ever carried
BogusJobId == "job_none"

Idle == [pc |-> "idle"]

\* No function of the module is being called on its own.
NoEvaluation == [fn |-> "none"]

EmptyDict == [k \in {} |-> 0]

\* {**old, **upd}
Merge(old, upd) ==
    [k \in DOMAIN old \cup DOMAIN upd |-> IF k \in DOMAIN upd THEN upd[k] ELSE old[k]]

\* dict[key] = value
Put(dict, key, value) ==
    [k \in DOMAIN dict \cup {key} |-> IF k = key THEN value ELSE dict[k]]

\* append_jsonl on one file of a directory: the file is created on first append
AppendFile(dir, path, rec) ==
    Put(dir, path, IF path \in DOMAIN dir THEN Append(dir[path], rec) ELSE <<rec>>)

EvidencePath(agent_id, job_id) == <<agent_id, job_id>>

\* A dict as Python keeps it: its items <<key, value>> in insertion order,
\* here the items of the record dict under the keys listed in keys.
Items(dict, keys) == [i \in 1..Len(keys) |-> <<keys[i], dict[keys[i]]>>]

\* The keys of a certificate in ascending order, the order sort_keys=True
\* writes them in.
SortedKeys ==
    <<"agent_id", "by_topic", "capability", "ci95", "evidence_uri", "n",
      "passed", "score", "signature">>

\* The place of each key in that order
KeyRank ==
    [k \in Range(SortedKeys) |-> CHOOSE r \in 1..Len(SortedKeys) : SortedKeys[r] = k]

\* The fields of a certificate in the order lines 228-241 insert them; ts and
\* expires_at are clock readings and are left out.
CertKeys ==
    <<"agent_id", "capability", "score", "by_topic", "n", "passed", "ci95",
      "evidence_uri">>

Reverse(seq) == [i \in 1..Len(seq) |-> seq[Len(seq) + 1 - i]]

\* sorted(keys) as the places to read keys at: the r-th smallest key is
\* keys[SortPerm(keys)[r]] (the keys of a dict are distinct)
SortPerm(keys) ==
    [r \in 1..Len(keys) |->
        CHOOSE i \in 1..Len(keys) :
            Cardinality({ j \in 1..Len(keys) : KeyRank[keys[j]] < KeyRank[keys[i]] }) = r - 1]

\* SortPerm on the insertion orders in which a certificate's fields are
\* signed or verified, worked out once.
SortPermTable == [keys \in {CertKeys, Reverse(CertKeys)} |-> SortPerm(keys)]

\* json.dumps(payload, sort_keys=True): the items in ascending order of key
SortKeys(items) ==
    LET keys == [i \in 1..Len(items) |-> items[i][1]]
    IN  [r \in 1..Len(items) |-> items[SortPermTable[keys][r]]]

\* Variant: the message is dumped in insertion order (no sort_keys).
hmac_sign_unsorted(payload, secret) == [key |-> secret, msg |-> payload]

\* hmac_sign: HMAC-SHA256 of the sorted dump of payload under secret, taken as
\* a collision-free function of the key and of the bytes signed
hmac_sign(payload, secret) == [key |-> secret, msg |-> SortKeys(payload)]

----------------------------------------------------------------------------
(* The observer at rest *)

NotProbing == [pc |-> "idle"]

NotReputing == [pc |-> "idle"]

\* REP_W_AVAIL, REP_W_PROBE, REP_W_CERT, REP_W_FLAGS unset: 0.40, 0.40, 0.20 and
\* 0.10, in units of 1/100
DefaultWeights == [avail |-> 40, probe |-> 40, cert |-> 20, flags |-> 10]

\* The observer started on empty files with the default weights
ObsInit ==
    /\ telemetryLog = <<>>
    /\ probeLog = <<>>
    /\ reputationLog = <<>>
    /\ posts = <<>>
    /\ probing = NotProbing
    /\ reputing = NotReputing
    /\ weights = DefaultWeights

\* The certifier started on empty files
CertInit ==
    /\ jobsLog = <<>>
    /\ resultsLog = <<>>
    /\ certsLog = <<>>
    /\ evidence = EmptyDict
    /\ progress = EmptyDict
    /\ threads = EmptyDict
    /\ handler = Idle
    /\ issued = {}
    /\ calls = [k \in Range(JobIds) |-> <<>>]

----------------------------------------------------------------------------
(* Initial state: empty logs, JOB_RUNNER = JobRunner() *)

Init == CertInit /\ ObsInit /\ evaluation = NoEvaluation

----------------------------------------------------------------------------
(* handle, action "start" *)

\* The job dict built from a request (lines 282-296); uuid4 ids are fresh.
JobOf(req) ==
    [cert_job_id |-> JobIds[Len(jobsLog) + 1],
     agent_id |-> req.agent_id,
     endpoint |-> IF "endpoint" \in DOMAIN req /\ req.endpoint # ""
                  THEN req.endpoint ELSE DEFAULT_ENDPOINT,
     capabilities |-> IF req.capabilities = <<>> THEN <<"math.g1_g12">>
                      ELSE req.capabilities,
     n |-> req.n,
     pass_threshold |-> req.pass_threshold]

\* Trials asked for so far
RECURSIVE TrialsAsked(_)
TrialsAsked(log) ==
    IF log = <<>> THEN 0 ELSE Max(0, Head(log).n) + TrialsAsked(Tail(log))

\* lines 281-297: build the job and append it to JOBS_FILE
AcceptStart(req) ==
    /\ handler = Idle
    /\ Len(jobsLog) < Len(JobIds)
    /\ jobsLog' = Append(jobsLog, JobOf(req))
    /\ handler' = [pc |-> "start_job", job |-> JobOf(req), req |-> req]
    /\ UNCHANGED <<resultsLog, certsLog, evidence, progress, threads, issued, calls, obsVars>>

\* A start request of a client, within the trials the model runs
HandleStart(req) ==
    /\ TrialsAsked(jobsLog) + Max(0, req.n) <= MaxTrials
    /\ AcceptStart(req)

\* The local state of a thread created for job and not yet started.
\* locked: the thread is inside "with self._lock" of _update (lines 165-167)
NewThread(job) ==
    [pc |-> "created", job |-> job, i |-> 0, successes |-> 0,
     by_topic_scores |-> EmptyDict, trial_rec |-> EmptyDict, locked |-> FALSE]

\* Variant: the thread is registered, the initial progress is not.
StartJobRegisterThreadOnly ==
    /\ handler.pc = "start_job"
    /\ threads' = Put(threads, handler.job.cert_job_id, NewThread(handler.job))
    /\ handler' = [handler EXCEPT !.pc = "launch"]
    /\ UNCHANGED <<jobsLog, resultsLog, certsLog, evidence, progress, issued, calls, obsVars>>

\* start_job, lines 153-157: create the thread, register it and the initial
\* progress under the lock
StartJobRegister ==
    /\ handler.pc = "start_job"
    /\ threads' = Put(threads, handler.job.cert_job_id, NewThread(handler.job))
    /\ progress' = Put(progress, handler.job.cert_job_id,
                       [done |-> 0, total |-> handler.job.n, status |-> "queued"])
    /\ handler' = [handler EXCEPT !.pc = "launch"]
    /\ UNCHANGED <<jobsLog, resultsLog, certsLog, evidence, issued, calls, obsVars>>

\* The response to a start request (line 299).
StartReply(job_id) == [kind |-> "started", cert_job_id |-> job_id, status |-> "queued"]

\* start_job, lines 158-159, and handle, line 299: start the thread and answer
\* StartReply(job_id); issued collects the ids answered.
StartJobLaunch ==
    /\ handler.pc = "launch"
    /\ threads' = [threads EXCEPT ![handler.job.cert_job_id].pc = "setup"]
    /\ issued' = issued \cup {handler.job.cert_job_id}
    /\ handler' = Idle
    /\ UNCHANGED <<jobsLog, resultsLog, certsLog, evidence, progress, calls, obsVars>>

----------------------------------------------------------------------------
(* handle, action "status" *)

\* JobRunner.get_status
get_status(job_id) ==
    IF job_id \in DOMAIN progress
    THEN [kind |-> "progress", body |-> progress[job_id]]
    ELSE [kind |-> "error", error |-> "unknown job_id"]

\* cert_job_id of a status request: "" is a missing one
StatusInputs == issued \cup {BogusJobId, ""}

\* The response to a status request (lines 302-305).
StatusReply(job_id) ==
    IF job_id = "" THEN [kind |-> "error", error |-> "missing cert_job_id"]
    ELSE get_status(job_id)

\* The handler reads under the lock and answers; it writes nothing.
HandleStatus(job_id) ==
    /\ handler = Idle
    /\ StatusReply(job_id).kind \in {"progress", "error"}
    /\ UNCHANGED vars

----------------------------------------------------------------------------
(* handle, action "certificate" *)

\* agent ids of the requests that name an agent
CertAgents == {"agent_a", "agent_b"}

\* agent_id of a certificate request: "" is a missing one
CertificateInputs == CertAgents \cup {""}

\* [c for c in load_jsonl(CERTS_FILE) if c.get("agent_id") == agent_id]
RECURSIVE CertsOfAgent(_, _)
CertsOfAgent(log, agent_id) ==
    IF log = <<>> THEN <<>>
    ELSE (IF Head(log).agent_id = agent_id THEN <<Head(log)>> ELSE <<>>)
             \o CertsOfAgent(Tail(log), agent_id)

\* Variant: the first matching record is returned (certs[0]).
CertificateReplyFirst(agent_id) ==
    IF agent_id = "" THEN [kind |-> "error", error |-> "missing agent_id"]
    ELSE LET certs == CertsOfAgent(certsLog, agent_id)
         IN  IF certs = <<>>
             THEN [kind |-> "error", error |-> "no certificate found"]
             ELSE [kind |-> "certificate", body |-> certs[1]]

\* The response to a certificate request (lines 307-315): the records of
\* CERTS_FILE are loaded as written and the last one of the agent is dumped.
CertificateReply(agent_id) ==
    IF agent_id = "" THEN [kind |-> "error", error |-> "missing agent_id"]
    ELSE LET certs == CertsOfAgent(certsLog, agent_id)
         IN  IF certs = <<>>
             THEN [kind |-> "error", error |-> "no certificate found"]
             ELSE [kind |-> "certificate", body |-> certs[Len(certs)]]

\* The handler reads CERTS_FILE and answers; it writes nothing.
HandleCertificate(agent_id) ==
    /\ handler = Idle
    /\ CertificateReply(agent_id).kind \in {"certificate", "error"}
    /\ UNCHANGED vars

----------------------------------------------------------------------------
(* JobRunner._run, one thread per job *)

\* The local variable sample of _run: a function of the job alone.
SampleFor(job) == SampleOf(load_tests_for(job.capabilities), job.n)

\* JobRunner._update
UpdateOf(job_id, upd) ==
    Put(progress, job_id,
        Merge(IF job_id \in DOMAIN progress THEN progress[job_id] ELSE EmptyDict, upd))

At(j, pc) == j \in DOMAIN threads /\ threads[j].pc = pc

\* Variant: status running is never published (line 189 sets evidence_uri only).
RunSetupSkipsRunning(j) ==
    /\ At(j, "setup")
    /\ LET job   == threads[j].job
           tests == load_tests_for(job.capabilities)
       IN  IF tests = <<>>
           THEN /\ progress' = UpdateOf(j, [status |-> "error",
                                  message |-> "no tests for requested capabilities"])
                /\ threads' = [threads EXCEPT ![j].pc = "exit"]
           ELSE /\ progress' = UpdateOf(j, [evidence_uri |-> EvidencePath(job.agent_id, j)])
                /\ threads' = [threads EXCEPT
                                  ![j].i = 1,
                                  ![j].pc = IF SampleOf(tests, job.n) = <<>>
                                            THEN "cert" ELSE "invoke"]
    /\ UNCHANGED <<jobsLog, resultsLog, certsLog, evidence, handler, issued, calls, obsVars>>

\* Variant: no return after the error update (line 181); the thread goes on to
\* aggregate an empty sample.
RunSetupNoReturn(j) ==
    /\ At(j, "setup")
    /\ LET job   == threads[j].job
           tests == load_tests_for(job.capabilities)
       IN  IF tests = <<>>
           THEN /\ progress' = UpdateOf(j, [status |-> "error",
                                  message |-> "no tests for requested capabilities"])
                /\ threads' = [threads EXCEPT ![j].pc = "cert"]
           ELSE /\ progress' = UpdateOf(j, [status |-> "running",
                                  evidence_uri |-> EvidencePath(job.agent_id, j)])
                /\ threads' = [threads EXCEPT
                                  ![j].i = 1,
                                  ![j].pc = IF SampleOf(tests, job.n) = <<>>
                                            THEN "cert" ELSE "invoke"]
    /\ UNCHANGED <<jobsLog, resultsLog, certsLog, evidence, handler, issued, calls, obsVars>>

\* Variant: the thread returns on an empty test list without the error update.
RunSetupSilentReturn(j) ==
    /\ At(j, "setup")
    /\ LET job   == threads[j].job
           tests == load_tests_for(job.capabilities)
       IN  IF tests = <<>>
           THEN /\ progress' = progress
                /\ threads' = [threads EXCEPT ![j].pc = "exit"]
           ELSE /\ progress' = UpdateOf(j, [status |-> "running",
                                  evidence_uri |-> EvidencePath(job.agent_id, j)])
                /\ threads' = [threads EXCEPT
                                  ![j].i = 1,
                                  ![j].pc = IF SampleOf(tests, job.n) = <<>>
                                            THEN "cert" ELSE "invoke"]
    /\ UNCHANGED <<jobsLog, resultsLog, certsLog, evidence, handler, issued, calls, obsVars>>

\* lines 170-189: load the tests; none: status error and return; else draw the
\* sample and set status running
RunSetup(j) ==
    /\ At(j, "setup")
    /\ LET job   == threads[j].job
           tests == load_tests_for(job.capabilities)
       IN  IF tests = <<>>
           THEN /\ progress' = UpdateOf(j, [status |-> "error",
                                  message |-> "no tests for requested capabilities"])
                /\ threads' = [threads EXCEPT ![j].pc = "exit", ![j].locked = FALSE]
           ELSE /\ progress' = UpdateOf(j, [status |-> "running",
                                  evidence_uri |-> EvidencePath(job.agent_id, j)])
                /\ threads' = [threads EXCEPT
                                  ![j].i = 1,
                                  ![j].locked = FALSE,
                                  ![j].pc = IF SampleOf(tests, job.n) = <<>>
                                            THEN "cert" ELSE "invoke"]
    /\ UNCHANGED <<jobsLog, resultsLog, certsLog, evidence, handler, issued, calls, obsVars>>

\* grade_item on every item of the bank and every text an agent may answer to
\* it, worked out once.
GradeTable ==
    [item \in Range(SAMPLE_TESTS) |->
        [text \in AgentTexts(item) |-> grade_item(item.capability, text, item.answer)]]

\* int(score >= 1.0) on the grade (lines 196-197), or 0 when the call raised
\* (line 200)
OkOf(item, outcome) ==
    IF outcome.raised THEN 0
    ELSE IF GradeTable[item][outcome.text] >= 1 THEN 1 ELSE 0

\* lines 205-215
TrialRec(job, item, pred, ok) ==
    [job_id |-> job.cert_job_id, agent_id |-> job.agent_id,
     capability |-> item.capability, topic |-> item.topic,
     question |-> item.question, gold |-> item.answer,
     prediction |-> pred, ok |-> ok]

\* by_topic_scores.setdefault(topic, []).append(ok)
TopicAppend(scores, topic, ok) ==
    Put(scores, topic, IF topic \in DOMAIN scores THEN Append(scores[topic], ok) ELSE <<ok>>)

\* Variant: no try/except around the call (lines 194, 198-200): an exception
\* ends the job with status error.
RunInvokeNoCatch(j) ==
    /\ At(j, "invoke")
    /\ LET t    == threads[j]
           item == SampleFor(t.job)[t.i]
       IN  \E outcome \in AgentOutcomes(item) :
             /\ calls' = [calls EXCEPT ![j] = Append(@, [question |-> item.question,
                                                  raised |-> outcome.raised])]
             /\ IF outcome.raised
                THEN /\ progress' = UpdateOf(j, [status |-> "error"])
                     /\ threads' = [threads EXCEPT ![j].pc = "exit"]
                ELSE /\ progress' = progress
                     /\ threads' = [threads EXCEPT
                            ![j].successes = @ + OkOf(item, outcome),
                            ![j].by_topic_scores =
                                TopicAppend(@, item.topic, OkOf(item, outcome)),
                            ![j].trial_rec =
                                TrialRec(t.job, item, outcome.text, OkOf(item, outcome)),
                            ![j].pc = "evidence"]
    /\ UNCHANGED <<jobsLog, resultsLog, certsLog, evidence, handler, issued, obsVars>>

\* Variant: a call that raised is made a second time before the trial is
\* given up.
RunInvokeRetries(j) ==
    /\ At(j, "invoke")
    /\ LET t    == threads[j]
           item == SampleFor(t.job)[t.i]
       IN  \E outcome \in AgentOutcomes(item) :
             LET ok   == OkOf(item, outcome)
                 pred == IF outcome.raised THEN ErrorText ELSE outcome.text
                 call == [question |-> item.question, raised |-> outcome.raised]
             IN  /\ calls' = [calls EXCEPT ![j] = IF outcome.raised
                                                  THEN Append(Append(@, call), call)
                                                  ELSE Append(@, call)]
                 /\ threads' = [threads EXCEPT
                        ![j].successes = @ + ok,
                        ![j].by_topic_scores = TopicAppend(@, item.topic, ok),
                        ![j].trial_rec = TrialRec(t.job, item, pred, ok),
                        ![j].pc = "evidence"]
    /\ UNCHANGED <<jobsLog, resultsLog, certsLog, evidence, progress, handler, issued, obsVars>>

\* lines 192-215: call the agent once, grade, count, build the trial record
RunInvoke(j) ==
    /\ At(j, "invoke")
    /\ LET t    == threads[j]
           item == SampleFor(t.job)[t.i]
       IN  \E outcome \in AgentOutcomes(item) :
             LET ok   == OkOf(item, outcome)
                 pred == IF outcome.raised THEN ErrorText ELSE outcome.text
             IN  /\ calls' = [calls EXCEPT ![j] = Append(@, [question |-> item.question,
                                                  raised |-> outcome.raised])]
                 /\ threads' = [threads EXCEPT
                        ![j].successes = @ + ok,
                        ![j].by_topic_scores = TopicAppend(@, item.topic, ok),
                        ![j].trial_rec = TrialRec(t.job, item, pred, ok),
                        ![j].pc = "evidence"]
    /\ UNCHANGED <<jobsLog, resultsLog, certsLog, evidence, progress, handler, issued, obsVars>>

\* Variant: the trial record goes to the global results log only.
RunAppendEvidenceSkipped(j) ==
    /\ At(j, "evidence")
    /\ threads' = [threads EXCEPT ![j].pc = "results"]
    /\ UNCHANGED <<jobsLog, resultsLog, certsLog, evidence, progress, handler, issued,
                   calls, obsVars>>

\* line 216
RunAppendEvidence(j) ==
    /\ At(j, "evidence")
    /\ evidence' = AppendFile(evidence, EvidencePath(threads[j].job.agent_id, j),
                              threads[j].trial_rec)
    /\ threads' = [threads EXCEPT ![j].pc = "results"]
    /\ UNCHANGED <<jobsLog, resultsLog, certsLog, progress, handler, issued, calls, obsVars>>

\* Variant: RESULTS_FILE is opened for writing, not for appending.
RunAppendResultsRewrite(j) ==
    /\ At(j, "results")
    /\ resultsLog' = <<threads[j].trial_rec>>
    /\ threads' = [threads EXCEPT ![j].pc = "progress"]
    /\ UNCHANGED <<jobsLog, certsLog, evidence, progress, handler, issued, calls, obsVars>>

\* line 217
RunAppendResults(j) ==
    /\ At(j, "results")
    /\ resultsLog' = Append(resultsLog, threads[j].trial_rec)
    /\ threads' = [threads EXCEPT ![j].pc = "progress"]
    /\ UNCHANGED <<jobsLog, certsLog, evidence, progress, handler, issued, calls, obsVars>>

\* Variant: the update writes back a dictionary read before the other jobs
\* were registered: the entry of job j alone.
RunUpdateProgressStale(j) ==
    /\ At(j, "progress")
    /\ progress' = Put(EmptyDict, j,
                       Merge(progress[j], [done |-> threads[j].i, total |-> threads[j].job.n]))
    /\ threads' = [threads EXCEPT
                      ![j].i = @ + 1,
                      ![j].locked = FALSE,
                      ![j].pc = IF threads[j].i < Len(SampleFor(threads[j].job))
                                THEN "invoke" ELSE "cert"]
    /\ UNCHANGED <<jobsLog, resultsLog, certsLog, evidence, handler, issued, calls, obsVars>>

\* Variant: the lock taken for the update is still held in the sleep and the
\* next invocation.
RunUpdateProgressKeepsLock(j) ==
    /\ At(j, "progress")
    /\ progress' = UpdateOf(j, [done |-> threads[j].i, total |-> threads[j].job.n])
    /\ threads' = [threads EXCEPT
                      ![j].i = @ + 1,
                      ![j].pc = IF threads[j].i < Len(SampleFor(threads[j].job))
                                THEN "invoke" ELSE "cert"]
    /\ UNCHANGED <<jobsLog, resultsLog, certsLog, evidence, handler, issued, calls, obsVars>>

\* lines 219-220: publish done = i and leave the lock, sleep, next trial or
\* leave the loop
RunUpdateProgress(j) ==
    /\ At(j, "progress")
    /\ progress' = UpdateOf(j, [done |-> threads[j].i, total |-> threads[j].job.n])
    /\ threads' = [threads EXCEPT
                      ![j].i = @ + 1,
                      ![j].locked = FALSE,
                      ![j].pc = IF threads[j].i < Len(SampleFor(threads[j].job))
                                THEN "invoke" ELSE "cert"]
    /\ UNCHANGED <<jobsLog, resultsLog, certsLog, evidence, handler, issued, calls, obsVars>>

RECURSIVE SumSeq(_)
SumSeq(seq) == IF seq = <<>> THEN 0 ELSE Head(seq) + SumSeq(Tail(seq))

\* score >= float(job.get("pass_threshold", 0.8)), score = successes / max(1, n)
Passed(successes, n, threshold) == 10000 * successes >= threshold * Max(1, n)

\* lines 223-242: aggregate and sign
CertOf(t) ==
    LET job  == t.job
        ci   == wilson_ci(t.successes, Max(1, job.n))
        body == [agent_id |-> job.agent_id,
                 capability |-> job.capabilities,
                 score |-> Round4(t.successes, Max(1, job.n)),
                 by_topic |-> [k \in DOMAIN t.by_topic_scores |->
                                 Round4(SumSeq(t.by_topic_scores[k]),
                                        Max(1, Len(t.by_topic_scores[k])))],
                 n |-> job.n,
                 passed |-> Passed(t.successes, job.n, job.pass_threshold),
                 ci95 |-> ci,
                 evidence_uri |-> EvidencePath(job.agent_id, job.cert_job_id)]
    \* cert["signature"] = hmac_sign(cert), on the dict as built so far
    IN  CHOOSE cert \in { Merge(c, [signature |-> hmac_sign(Items(c, CertKeys), SECRET)])
                            : c \in {body} } : TRUE

\* Variant: status done is published when the certificate is appended, before
\* the result is attached.
RunAppendCertMarksDone(j) ==
    /\ At(j, "cert")
    /\ certsLog' = Append(certsLog, CertOf(threads[j]))
    /\ progress' = UpdateOf(j, [status |-> "done"])
    /\ threads' = [threads EXCEPT ![j].pc = "finish"]
    /\ UNCHANGED <<jobsLog, resultsLog, evidence, handler, issued, calls, obsVars>>

\* line 243
RunAppendCert(j) ==
    /\ At(j, "cert")
    /\ certsLog' = Append(certsLog, CertOf(threads[j]))
    /\ threads' = [threads EXCEPT ![j].pc = "finish"]
    /\ UNCHANGED <<jobsLog, resultsLog, evidence, progress, handler, issued, calls, obsVars>>

\* line 245
RunSetDone(j) ==
    /\ At(j, "finish")
    /\ \E cert \in {CertOf(threads[j])} :
          progress' = UpdateOf(j, [status |-> "done", result |-> cert])
    /\ threads' = [threads EXCEPT ![j].pc = "exit", ![j].locked = FALSE]
    /\ UNCHANGED <<jobsLog, resultsLog, certsLog, evidence, handler, issued, calls, obsVars>>

----------------------------------------------------------------------------

Run(j) ==
    \/ RunSetup(j)
    \/ RunInvoke(j)
    \/ RunAppendEvidence(j)
    \/ RunAppendResults(j)
    \/ RunUpdateProgress(j)
    \/ RunAppendCert(j)
    \/ RunSetDone(j)

\* One step of the system, the start requests drawn from reqs
NextWith(reqs) ==
    \/ \E req \in reqs : HandleStart(req)
    \/ StartJobRegister
    \/ StartJobLaunch
    \/ \E job_id \in StatusInputs : HandleStatus(job_id)
    \/ \E agent_id \in CertificateInputs : HandleCertificate(agent_id)
    \/ \E j \in Range(JobIds) : Run(j)

Next == NextWith(StartRequests)

Spec == Init /\ [][Next]_vars

\* The start requests of the fair specification: the default threshold, and
\* capabilities with and without test items.
FairStartRequests ==
    { req \in StartRequests :
        /\ req.pass_threshold = DEFAULT_PASS_THRESHOLD
        /\ req.capabilities \in { <<>>, <<"none.such">> } }

FairNext == NextWith(FairStartRequests)

\* The start requests of the certificate specification: two agents, jobs of
\* one trial, capabilities with and without test items.
CertStartRequests ==
    [agent_id : CertAgents, capabilities : { <<"math.g1_g12">>, <<"none.such">> },
     n : {1}, pass_threshold : {DEFAULT_PASS_THRESHOLD}]

CertNext == NextWith(CertStartRequests)

CertSpec == Init /\ [][CertNext]_vars

\* Fair scheduling: a request handler that entered start_job finishes it, and
\* every started thread keeps being scheduled; each of its steps ends (an agent
\* call returns or raises within its timeout, the sleep is finite).
FairSpec ==
    /\ Init /\ [][FairNext]_vars
    /\ WF_vars(StartJobRegister)
    /\ WF_vars(StartJobLaunch)
    /\ \A j \in Range(JobIds) : WF_vars(Run(j))

----------------------------------------------------------------------------
(* Observer/Evaluator                                                      *)
(* (src/agents/observer_evaluator/langchain_observer_evaluator.py):        *)
(* telemetry, health aggregates and the probe runner.                      *)
(*                                                                         *)
(* Latencies and the p95 values derived from them are clock readings and   *)
(* are not modelled.  A rate that the code rounds to 4 places is the       *)
(* integer 10000 * rate, as in the certifier.                              *)

\* Largest number of records the telemetry log grows to.
MaxEvents == 3

\* Largest n a probe request carries, and the largest number of probe runs
\* of one behaviour.
MaxProbeN == 2

MaxProbeRuns == 1

\* health_for_agent(agent_id, lookback_events = 500)
DEFAULT_LOOKBACK == 500

ObsAgents == {"agent_a", "agent_b"}

ProbeEndpoint == "http://agent_a/a2a"

SAMPLE_PROBES ==
    [capability \in {"math.g1_g12", "qa.general"} |->
        IF capability = "math.g1_g12"
        THEN << [q |-> "Solve for x: 2x + 3 = 9", check |-> <<"3">>],
                [q |-> "Derivative of x^2?", check |-> <<"2", "x">>],
                [q |-> "What is 7 * 8?", check |-> <<"5", "6">>] >>
        ELSE << [q |-> "What gas do plants primarily absorb during photosynthesis?",
                 check |-> <<"c", "a", "r", "b", "o", "n", " ", "d", "i", "o", "x", "i", "d", "e">>],
                [q |-> "Who wrote 'Pride and Prejudice'?",
                 check |-> <<"j", "a", "n", "e", " ", "a", "u", "s", "t", "e", "n">>] >>]

\* SAMPLE_PROBES.get(capability, [])
ProbeBank(capability) ==
    IF capability \in DOMAIN SAMPLE_PROBES THEN SAMPLE_PROBES[capability] ELSE <<>>

\* norm(s) = " ".join(s.strip().lower().split())
norm(s) == Join(Split(LowerText(Strip(s))))

\* sub in s, on strings
IsInfix(sub, s) ==
    \E k \in 0..(Len(s) - Len(sub)) : SubSeq(s, k + 1, k + Len(sub)) = sub

match_success(pred, gold) ==
    IF norm(pred) = norm(gold) \/ IsInfix(norm(gold), norm(pred)) THEN 1 ELSE 0

\* What an agent may reply to a probe: the expected answer in another case
\* and padded with whitespace, a sentence holding the expected answer, or
\* something else.
ProbeTexts(item) ==
    { <<" ">> \o [k \in 1..Len(item.check) |-> Upper(item.check[k])] \o <<" ", "\n">>,
      <<"x", " ", "=", " ">> \o item.check,
      <<"4", "2">> }

\* call_agent_a2a raising, or a reply text
ProbeOutcomes(item) ==
    { [raised |-> TRUE, text |-> <<>>] }
    \cup { [raised |-> FALSE, text |-> t] : t \in ProbeTexts(item) }

ProbeItems == UNION { Range(SAMPLE_PROBES[c]) : c \in DOMAIN SAMPLE_PROBES }

\* match_success on every probe and every text an agent may reply to it,
\* worked out once.
MatchTable ==
    [item \in ProbeItems |->
        [text \in ProbeTexts(item) |-> match_success(text, item.check)]]

----------------------------------------------------------------------------
(* Telemetry ingestion and health aggregates *)

\* int(bool(x))
IntBool(x) == IF x # 0 THEN 1 ELSE 0

\* The record ingest_telemetry appends
TelemetryRec(agent_id, success, status_code, fraud_flag, note) ==
    [agent_id |-> agent_id, success |-> IntBool(success), status_code |-> status_code,
     fraud_flag |-> IntBool(fraud_flag), note |-> note]

\* TELEMETRY_FILE after ingest_telemetry
ingest_telemetry(agent_id, success, status_code, fraud_flag, note) ==
    Append(telemetryLog, TelemetryRec(agent_id, success, status_code, fraud_flag, note))

TelemetryRequests ==
    [agent_id : ObsAgents, success : {0, 1, 7}, status_code : {200}, fraud_flag : {0, 1}]

\* handle, action "telemetry.ingest"
HandleTelemetry(req) ==
    /\ Len(telemetryLog) < MaxEvents
    /\ telemetryLog' = ingest_telemetry(req.agent_id, req.success, req.status_code,
                                        req.fraud_flag, <<>>)
    /\ UNCHANGED <<probeLog, reputationLog, posts, probing, reputing, weights, certVars>>

\* [r for r in log if r.get("agent_id") == agent_id]
RECURSIVE ByAgent(_, _)
ByAgent(log, agent_id) ==
    IF log = <<>> THEN <<>>
    ELSE (IF Head(log).agent_id = agent_id THEN <<Head(log)>> ELSE <<>>)
         \o ByAgent(Tail(log), agent_id)

\* Variant: the rows of every agent are taken.
WindowOfAll(log, agent_id, lookback_events) ==
    Reverse(SliceTo(Reverse(log), lookback_events))

\* lines 108-109: the agent's rows newest first, cut to lookback_events, put
\* back in order
WindowOf(log, agent_id, lookback_events) ==
    Reverse(SliceTo(Reverse(ByAgent(log, agent_id)), lookback_events))

\* health_for_agent on a telemetry log; with no rows the dict has no
\* fraud_rate
HealthOf(log, agent_id, lookback_events) ==
    LET rows      == WindowOf(log, agent_id, lookback_events)
        events    == Len(rows)
        successes == SumSeq([k \in 1..events |-> rows[k].success])
        flags     == SumSeq([k \in 1..events |-> rows[k].fraud_flag])
    IN  IF rows = <<>>
        THEN [agent_id |-> agent_id, events |-> 0, availability |-> 0, error_rate |-> 10000]
        ELSE [agent_id |-> agent_id, events |-> events,
              availability |-> Round4(successes, Max(1, events)),
              error_rate |-> Round4(Max(1, events) - successes, Max(1, events)),
              fraud_rate |-> Round4(flags, Max(1, events)),
              window_events |-> lookback_events]

health_for_agent(agent_id, lookback_events) ==
    HealthOf(telemetryLog, agent_id, lookback_events)

HealthInputs == ObsAgents \cup {""}

\* What handle answers to action "observer.health"
HealthReply(agent_id) ==
    IF agent_id = "" THEN [kind |-> "error", error |-> "missing agent_id"]
    ELSE [kind |-> "health", body |-> health_for_agent(agent_id, DEFAULT_LOOKBACK)]

\* handle, action "observer.health": reads TELEMETRY_FILE, writes nothing
HandleHealth(agent_id) ==
    /\ agent_id \in HealthInputs
    /\ UNCHANGED vars

----------------------------------------------------------------------------
(* Probe runner *)

ProbeRequests ==
    [agent_id : {"agent_a", ""}, endpoint : {ProbeEndpoint, ""},
     capability : {"math.g1_g12", "qa.general", "none.such"}, n : 0..MaxProbeN]

\* What handle answers at once to action "observer.probe.run": an error, or
\* nothing yet (the run record follows the trials)
ProbeRefusal(req) ==
    IF req.agent_id = "" \/ req.endpoint = "" THEN "missing agent_id or endpoint"
    ELSE IF ProbeBank(req.capability) = <<>> THEN "no probes for capability"
    ELSE ""

\* handle, action "observer.probe.run" up to the loop of run_probe
AcceptProbe(req) ==
    /\ probing = NotProbing
    /\ Len(telemetryLog) + req.n <= MaxEvents
    /\ IF ProbeRefusal(req) # ""
       THEN UNCHANGED probing
       ELSE probing' = [pc |-> IF req.n > 0 THEN "trial" ELSE "finish",
                        agent_id |-> req.agent_id, endpoint |-> req.endpoint,
                        capability |-> req.capability, n |-> req.n,
                        i |-> 0, successes |-> 0, trials |-> <<>>]
    /\ UNCHANGED <<telemetryLog, probeLog, reputationLog, posts, reputing, weights, certVars>>

\* The same, for at most MaxProbeRuns runs
HandleProbe(req) ==
    /\ Len(probeLog) < MaxProbeRuns
    /\ AcceptProbe(req)

\* Variant: a trial whose call raised ingests no event.
ProbeTrialSkipsFailed ==
    /\ probing.pc = "trial"
    /\ LET bank == ProbeBank(probing.capability)
           item == bank[(probing.i % Len(bank)) + 1]
       IN  \E outcome \in ProbeOutcomes(item) :
             \E ok \in { IF outcome.raised THEN 0 ELSE MatchTable[item][outcome.text] } :
               /\ telemetryLog' = IF outcome.raised THEN telemetryLog
                                  ELSE ingest_telemetry(probing.agent_id, ok, 200, 0,
                                                        <<"probe", probing.capability>>)
               /\ probing' = [probing EXCEPT
                                !.i = @ + 1,
                                !.successes = @ + ok,
                                !.trials = Append(@, [item |-> item, raised |-> outcome.raised,
                                                      pred |-> outcome.text, ok |-> ok]),
                                !.pc = IF probing.i + 1 < probing.n THEN "trial" ELSE "finish"]
    /\ UNCHANGED <<probeLog, reputationLog, posts, reputing, weights, certVars>>

\* One pass of the loop of run_probe (lines 159-179)
ProbeTrial ==
    /\ probing.pc = "trial"
    /\ LET bank == ProbeBank(probing.capability)
           item == bank[(probing.i % Len(bank)) + 1]
       IN  \E outcome \in ProbeOutcomes(item) :
             \E ok \in { IF outcome.raised THEN 0 ELSE MatchTable[item][outcome.text] } :
               /\ telemetryLog' = ingest_telemetry(probing.agent_id, ok,
                                       IF outcome.raised THEN 500 ELSE 200, 0,
                                       <<"probe", probing.capability>>)
               /\ probing' = [probing EXCEPT
                                !.i = @ + 1,
                                !.successes = @ + ok,
                                !.trials = Append(@, [item |-> item, raised |-> outcome.raised,
                                                      pred |-> outcome.text, ok |-> ok]),
                                !.pc = IF probing.i + 1 < probing.n THEN "trial" ELSE "finish"]
    /\ UNCHANGED <<probeLog, reputationLog, posts, reputing, weights, certVars>>

\* The run record (lines 184-193)
ProbeRun(p) ==
    [agent_id |-> p.agent_id, endpoint |-> p.endpoint, capability |-> p.capability,
     n |-> p.n, success |-> Round4(p.successes, Max(1, p.n))]

\* lines 181-194
ProbeFinish ==
    /\ probing.pc = "finish"
    /\ probeLog' = Append(probeLog, ProbeRun(probing))
    /\ probing' = NotProbing
    /\ UNCHANGED <<telemetryLog, reputationLog, posts, reputing, weights, certVars>>

\* runs[-1] of the agent, or None
last_probe(agent_id) ==
    LET runs == ByAgent(probeLog, agent_id)
    IN  IF runs = <<>> THEN [found |-> FALSE] ELSE [found |-> TRUE, run |-> runs[Len(runs)]]

ObsNext ==
    \/ \E req \in TelemetryRequests : HandleTelemetry(req)
    \/ \E agent_id \in HealthInputs : HandleHealth(agent_id)
    \/ \E req \in ProbeRequests : HandleProbe(req)
    \/ ProbeTrial
    \/ ProbeFinish

ObsSpec == Init /\ [][ObsNext]_vars

\* Probe runs of up to MaxRunN trials next to telemetry that other callers
\* ingest
MaxRunN == 3

RunTelemetryRequests ==
    [agent_id : ObsAgents, success : {1}, status_code : {200}, fraud_flag : {0}]

RunProbeRequests ==
    [agent_id : {"agent_a"}, endpoint : {ProbeEndpoint},
     capability : {"math.g1_g12", "none.such"}, n : {0, 1, MaxRunN}]

RunNext ==
    \/ \E req \in RunTelemetryRequests : HandleTelemetry(req)
    \/ \E req \in RunProbeRequests : HandleProbe(req)
    \/ ProbeTrial
    \/ ProbeFinish

RunSpec == Init /\ [][RunNext]_vars

----------------------------------------------------------------------------
(* Reputation.                                                             *)
(*                                                                         *)
(* A weight is held in units of 1/100 and a rate or score in units of      *)
(* 1/10000, so a reputation before rounding is an integer in units of      *)
(* 1/1000000.  The code computes on doubles: a comparison or a rounding of *)
(* a double agrees with the one on the exact value except where the exact  *)
(* value sits on the boundary, and there the outcome depends on the        *)
(* rounding errors of the operands.  Such an outcome is taken from the     *)
(* tables below where CPython's result for the operands is known, and is   *)
(* left open otherwise.  A float that is not a number is the value NaN;    *)
(* an infinite one behaves in clamp01 as a large finite one does.          *)

\* Number of reputation queries of one behaviour.
MaxSnapshots == 2

RATE_LIMIT_THRESH == 5000

RECERT_DELTA == 1500

RECERT_MIN_N == 10

\* "n": 50 of the start request the handler sends
RECERT_N == 50

NaN == 0 - 2147483647

FMul(x, y) == IF x = NaN \/ y = NaN THEN NaN ELSE x * y

FAdd(x, y) == IF x = NaN \/ y = NaN THEN NaN ELSE x + y

FSub(x, y) == IF x = NaN \/ y = NaN THEN NaN ELSE x - y

\* Variant: the value is passed on as it is.
clamp01_absent(x) == x

\* max(0.0, min(1.0, x)): min(1.0, nan) is 1.0, since nan < 1.0 is false
clamp01(x) ==
    IF x = NaN THEN 1000000 ELSE Max(0, Min(1000000, x))

\* Variant: the first certificate of the agent is read.
first_cert_score(agent_id) ==
    LET certs == CertsOfAgent(certsLog, agent_id)
    IN  IF certs = <<>> THEN 0 ELSE certs[1].score

last_cert_score(agent_id) ==
    LET certs == CertsOfAgent(certsLog, agent_id)
    IN  IF certs = <<>> THEN 0 ELSE certs[Len(certs)].score

\* last_probe(agent_id) or {"n": 0, "success": 0.0}
ProbeOrDefault(agent_id) ==
    LET found == last_probe(agent_id)
    IN  IF found.found THEN found.run ELSE [n |-> 0, success |-> 0]

\* health.get("fraud_rate", 0.0)
FraudRateOf(health) ==
    IF "fraud_rate" \in DOMAIN health THEN health.fraud_rate ELSE 0

\* lines 215-221, in units of 1/1000000
RepOf(w, health, probe, cert_score) ==
    clamp01(FSub(FAdd(FAdd(FMul(w.avail, health.availability),
                           FMul(w.probe, probe.success)),
                      FMul(w.cert, cert_score)),
                 FMul(w.flags, FraudRateOf(health))))

\* Inputs <<availability, fraud_rate, probe success, cert_score>> whose exact
\* reputation under the default weights is the threshold and whose double
\* is not below it
ThresholdTiesNotBelow == { <<10000, 0, 0, 5000>> }

\* rep < RATE_LIMIT_THRESH
BelowOutcomes(w, health, probe, cert_score) ==
    LET rep == RepOf(w, health, probe, cert_score)
    IN  IF rep # 100 * RATE_LIMIT_THRESH THEN { rep < 100 * RATE_LIMIT_THRESH }
        ELSE IF w = DefaultWeights
                /\ <<health.availability, FraudRateOf(health), probe.success, cert_score>>
                       \in ThresholdTiesNotBelow
             THEN { FALSE }
        ELSE BOOLEAN

\* round(rep, 4) of the clamped reputation
RoundOutcomes(rep) ==
    LET q == rep \div 100
        r == rep % 100
    IN  IF r < 50 THEN { q } ELSE IF r > 50 THEN { q + 1 } ELSE { q, q + 1 }

\* Pairs <<cert_score, probe_success>> whose exact difference is RECERT_DELTA:
\* those whose difference of doubles falls short of the double 0.15, and
\* those whose difference reaches it
DriftTiesShort == { <<6000, 4500>>, <<3500, 2000>>, <<9500, 8000>> }

DriftTiesMet ==
    { <<2500, 1000>>, <<5000, 3500>>, <<7500, 6000>>, <<4000, 2500>>,
      <<8000, 6500>>, <<10000, 8500>>, <<2000, 500>> }

\* (cert_score - probe_success) >= RECERT_DELTA
DriftOutcomes(cert_score, probe_success) ==
    IF cert_score = NaN \/ probe_success = NaN THEN { FALSE }
    ELSE IF cert_score - probe_success # RECERT_DELTA
         THEN { cert_score - probe_success > RECERT_DELTA }
    ELSE IF <<cert_score, probe_success>> \in DriftTiesShort THEN { FALSE }
    ELSE IF <<cert_score, probe_success>> \in DriftTiesMet THEN { TRUE }
    ELSE BOOLEAN

\* line 248: cert_score > 0.0 and n >= RECERT_MIN_N and drift
RecertOutcomes(probe, cert_score) ==
    IF cert_score # NaN /\ cert_score > 0 /\ probe.n >= RECERT_MIN_N
    THEN DriftOutcomes(cert_score, probe.success)
    ELSE { FALSE }

\* requests.post to the certifier: an HTTP response of any status (there is
\* no raise_for_status), or an exception
PostOutcomes == {"answered", "raised"}

\* The list decide_actions returns
decide_actions(below, recert, outcome) ==
    <<"monitor">>
    \o (IF below THEN <<"rate_limit">> ELSE <<>>)
    \o (IF recert
        THEN IF outcome = "raised" THEN <<"recert_failed">> ELSE <<"recert_requested">>
        ELSE <<>>)

\* The body of the request decide_actions posts (lines 256-258)
DriftStart(agent_id) == [action |-> "start", agent_id |-> agent_id]

\* The body of the request the handler posts (lines 376-383)
EndpointStart(agent_id, endpoint) ==
    [action |-> "start", agent_id |-> agent_id, endpoint |-> endpoint,
     capabilities |-> <<"math.g1_g12">>, n |-> RECERT_N, rps |-> 1]

\* The snapshot compute_reputation builds (lines 223-235)
SnapshotOf(r, rep4) ==
    [agent_id |-> r.agent_id, rep |-> rep4, health |-> r.health,
     last_probe |-> [n |-> r.probe.n, success |-> r.probe.success],
     last_cert_score |-> r.cert_score, actions |-> r.actions]

ReputationRequests == [agent_id : ObsAgents \cup {""}, endpoint : {ProbeEndpoint, ""}]

\* What handle answers at once to action "reputation" without an agent_id
ReputationRefusal(req) == IF req.agent_id = "" THEN "missing agent_id" ELSE ""

\* handle, action "reputation", up to the call of compute_reputation
HandleReputation(req) ==
    /\ reputing = NotReputing
    /\ Len(reputationLog) < MaxSnapshots
    /\ IF ReputationRefusal(req) # ""
       THEN UNCHANGED reputing
       ELSE reputing' = [pc |-> "health", agent_id |-> req.agent_id,
                         endpoint |-> req.endpoint]
    /\ UNCHANGED <<telemetryLog, probeLog, reputationLog, posts, probing, weights, certVars>>

\* line 211
RepReadHealth ==
    /\ reputing.pc = "health"
    /\ \E health \in { health_for_agent(reputing.agent_id, DEFAULT_LOOKBACK) } :
         reputing' = [pc |-> "probe", agent_id |-> reputing.agent_id,
                      endpoint |-> reputing.endpoint, health |-> health]
    /\ UNCHANGED <<telemetryLog, probeLog, reputationLog, posts, probing, weights, certVars>>

\* Variant: the health and the last run are read at one instant.
RepReadProbeWithHealth ==
    /\ reputing.pc = "probe"
    /\ \E health \in { health_for_agent(reputing.agent_id, DEFAULT_LOOKBACK) } :
       \E probe \in { ProbeOrDefault(reputing.agent_id) } :
         reputing' = [pc |-> "cert", agent_id |-> reputing.agent_id,
                      endpoint |-> reputing.endpoint, health |-> health,
                      probe |-> probe]
    /\ UNCHANGED <<telemetryLog, probeLog, reputationLog, posts, probing, weights, certVars>>

\* line 212
RepReadProbe ==
    /\ reputing.pc = "probe"
    /\ \E probe \in { ProbeOrDefault(reputing.agent_id) } :
         reputing' = [pc |-> "cert", agent_id |-> reputing.agent_id,
                      endpoint |-> reputing.endpoint, health |-> reputing.health,
                      probe |-> probe]
    /\ UNCHANGED <<telemetryLog, probeLog, reputationLog, posts, probing, weights, certVars>>

\* line 213
RepReadCert ==
    /\ reputing.pc = "cert"
    /\ \E cert_score \in { last_cert_score(reputing.agent_id) } :
         reputing' = [pc |-> "decide", agent_id |-> reputing.agent_id,
                      endpoint |-> reputing.endpoint, health |-> reputing.health,
                      probe |-> reputing.probe, cert_score |-> cert_score]
    /\ UNCHANGED <<telemetryLog, probeLog, reputationLog, posts, probing, weights, certVars>>

\* Variant: an exception of the post ends the query.
RepDecideNoCatch ==
    /\ reputing.pc = "decide"
    /\ \E rep \in { RepOf(weights, reputing.health, reputing.probe, reputing.cert_score) } :
       \E below \in BelowOutcomes(weights, reputing.health, reputing.probe, reputing.cert_score) :
       \E recert \in RecertOutcomes(reputing.probe, reputing.cert_score) :
       \E outcome \in PostOutcomes :
         /\ posts' = IF recert
                     THEN Append(posts, [body |-> DriftStart(reputing.health.agent_id),
                                         outcome |-> outcome])
                     ELSE posts
         /\ reputing' = IF recert /\ outcome = "raised" THEN NotReputing
                        ELSE [pc |-> "append", agent_id |-> reputing.agent_id,
                              endpoint |-> reputing.endpoint, health |-> reputing.health,
                              probe |-> reputing.probe, cert_score |-> reputing.cert_score,
                              rep |-> rep, actions |-> decide_actions(below, recert, outcome)]
    /\ UNCHANGED <<telemetryLog, probeLog, reputationLog, probing, weights, certVars>>

\* lines 215-221 and decide_actions (lines 239-270), called at line 234
RepDecide ==
    /\ reputing.pc = "decide"
    /\ \E rep \in { RepOf(weights, reputing.health, reputing.probe, reputing.cert_score) } :
       \E below \in BelowOutcomes(weights, reputing.health, reputing.probe, reputing.cert_score) :
       \E recert \in RecertOutcomes(reputing.probe, reputing.cert_score) :
       \E outcome \in PostOutcomes :
         /\ posts' = IF recert
                     THEN Append(posts, [body |-> DriftStart(reputing.health.agent_id),
                                         outcome |-> outcome])
                     ELSE posts
         /\ reputing' = [pc |-> "append", agent_id |-> reputing.agent_id,
                         endpoint |-> reputing.endpoint, health |-> reputing.health,
                         probe |-> reputing.probe, cert_score |-> reputing.cert_score,
                         rep |-> rep, actions |-> decide_actions(below, recert, outcome)]
    /\ UNCHANGED <<telemetryLog, probeLog, reputationLog, probing, weights, certVars>>

\* Variant: REPUTATION_FILE is written anew with the snapshot alone.
RepAppendOverwrites ==
    /\ reputing.pc = "append"
    /\ \E rep4 \in RoundOutcomes(reputing.rep) :
         reputationLog' = << SnapshotOf(reputing, rep4) >>
    /\ reputing' = [reputing EXCEPT !.pc = "trigger"]
    /\ UNCHANGED <<telemetryLog, probeLog, posts, probing, weights, certVars>>

\* line 236
RepAppend ==
    /\ reputing.pc = "append"
    /\ \E rep4 \in RoundOutcomes(reputing.rep) :
         reputationLog' = Append(reputationLog, SnapshotOf(reputing, rep4))
    /\ reputing' = [reputing EXCEPT !.pc = "trigger"]
    /\ UNCHANGED <<telemetryLog, probeLog, posts, probing, weights, certVars>>

\* Variant: the request with the endpoint is sent whenever an endpoint is given.
RepTriggerAlways ==
    /\ reputing.pc = "trigger"
    /\ \E outcome \in PostOutcomes :
         posts' = IF reputing.endpoint # ""
                  THEN Append(posts, [body |-> EndpointStart(reputing.agent_id, reputing.endpoint),
                                      outcome |-> outcome])
                  ELSE posts
    /\ reputing' = NotReputing
    /\ UNCHANGED <<telemetryLog, probeLog, reputationLog, probing, weights, certVars>>

\* lines 369-389: the request with the endpoint; an exception is swallowed
RepTrigger ==
    /\ reputing.pc = "trigger"
    /\ \E outcome \in PostOutcomes :
         posts' = IF reputing.endpoint # "" /\ "recert_requested" \in Range(reputing.actions)
                  THEN Append(posts, [body |-> EndpointStart(reputing.agent_id, reputing.endpoint),
                                      outcome |-> outcome])
                  ELSE posts
    /\ reputing' = NotReputing
    /\ UNCHANGED <<telemetryLog, probeLog, reputationLog, probing, weights, certVars>>

RepStep ==
    \/ RepReadHealth
    \/ RepReadProbe
    \/ RepReadCert
    \/ RepDecide
    \/ RepAppend
    \/ RepTrigger

RepNext ==
    \/ \E req \in ReputationRequests : HandleReputation(req)
    \/ RepStep

----------------------------------------------------------------------------
(* The observer started on logs that earlier runs have written *)

OkEvent(agent_id) == TelemetryRec(agent_id, 1, 200, 0, <<>>)

FailedEvent(agent_id) == TelemetryRec(agent_id, 0, 500, 0, <<>>)

FlaggedEvent(agent_id) == TelemetryRec(agent_id, 0, 200, 1, <<>>)

TelemetryPriors ==
    { <<>>,
      << OkEvent("agent_a") >>,
      << OkEvent("agent_a"), FlaggedEvent("agent_a") >>,
      << OkEvent("agent_b"), FailedEvent("agent_a") >> }

\* The record of a probe run of n trials, successes of them successful
PriorRun(agent_id, n, successes) ==
    ProbeRun([agent_id |-> agent_id, endpoint |-> ProbeEndpoint,
              capability |-> "math.g1_g12", n |-> n, successes |-> successes])

ProbePriors ==
    { <<>>,
      << PriorRun("agent_a", 12, 1) >>,
      << PriorRun("agent_a", 20, 9) >>,
      << PriorRun("agent_a", 10, 5), PriorRun("agent_b", 5, 0) >>,
      << PriorRun("agent_a", 10, 5), PriorRun("agent_a", 5, 0) >> }

\* The certificate of a job of n trials on one topic, successes of them
\* successful
PriorCert(agent_id, job_id, n, successes) ==
    CertOf([job |-> [cert_job_id |-> job_id, agent_id |-> agent_id,
                     capabilities |-> <<"math.g1_g12">>, n |-> n,
                     pass_threshold |-> DEFAULT_PASS_THRESHOLD],
            successes |-> successes,
            by_topic_scores |-> [k \in {"algebra"} |->
                                   [i \in 1..n |-> IF i <= successes THEN 1 ELSE 0]]])

CertPriors ==
    { <<>>,
      << PriorCert("agent_a", "job_1", 3, 1) >>,
      << PriorCert("agent_a", "job_1", 5, 3) >>,
      << PriorCert("agent_a", "job_1", 2, 1), PriorCert("agent_a", "job_2", 1, 1) >>,
      << PriorCert("agent_a", "job_1", 1, 1), PriorCert("agent_b", "job_2", 1, 0) >> }

RepInit ==
    /\ telemetryLog \in TelemetryPriors
    /\ probeLog \in ProbePriors
    /\ certsLog \in CertPriors
    /\ jobsLog = <<>>
    /\ resultsLog = <<>>
    /\ evidence = EmptyDict
    /\ progress = EmptyDict
    /\ threads = EmptyDict
    /\ handler = Idle
    /\ issued = {}
    /\ calls = [k \in Range(JobIds) |-> <<>>]
    /\ evaluation = NoEvaluation
    /\ reputationLog = <<>>
    /\ posts = <<>>
    /\ probing = NotProbing
    /\ reputing = NotReputing
    /\ weights = DefaultWeights

RepSpec == RepInit /\ [][RepNext]_vars

\* A started reputation query runs to its end.
RepFairSpec == RepSpec /\ WF_vars(RepStep)

----------------------------------------------------------------------------
(* The observer started with other weights, on logs holding records that   *)
(* the observer and the certifier do not write: success flags other than   *)
(* 0 and 1, rates and scores outside [0, 1] or not a number.               *)

WildWeights ==
    { DefaultWeights,
      [avail |-> 300, probe |-> 40, cert |-> 20, flags |-> 10],
      [avail |-> 0 - 100, probe |-> 0 - 100, cert |-> 0 - 100, flags |-> 300],
      [avail |-> 40, probe |-> 40, cert |-> NaN, flags |-> 10],
      [avail |-> 0, probe |-> 0, cert |-> 0, flags |-> 0] }

WildTelemetry ==
    { <<>>,
      << OkEvent("agent_a") >>,
      << [agent_id |-> "agent_a", success |-> 7, status_code |-> 200,
          fraud_flag |-> 0, note |-> <<>>] >>,
      << [agent_id |-> "agent_a", success |-> 0 - 2, status_code |-> 200,
          fraud_flag |-> 9, note |-> <<>>] >> }

WildRun(agent_id, n, success) ==
    [agent_id |-> agent_id, endpoint |-> ProbeEndpoint, capability |-> "math.g1_g12",
     n |-> n, success |-> success]

WildProbes ==
    { <<>>,
      << PriorRun("agent_a", 10, 5) >>,
      << WildRun("agent_a", 10, 25000) >>,
      << WildRun("agent_a", 0 - 3, 0 - 5000) >>,
      << WildRun("agent_a", 10, NaN) >> }

WildCert(agent_id, score) == [agent_id |-> agent_id, score |-> score]

WildCerts ==
    { <<>>,
      << PriorCert("agent_a", "job_1", 1, 1) >>,
      << WildCert("agent_a", 50000) >>,
      << WildCert("agent_a", 0 - 30000) >>,
      << WildCert("agent_a", NaN) >> }

WildInit ==
    /\ telemetryLog \in WildTelemetry
    /\ probeLog \in WildProbes
    /\ certsLog \in WildCerts
    /\ jobsLog = <<>>
    /\ resultsLog = <<>>
    /\ evidence = EmptyDict
    /\ progress = EmptyDict
    /\ threads = EmptyDict
    /\ handler = Idle
    /\ issued = {}
    /\ calls = [k \in Range(JobIds) |-> <<>>]
    /\ evaluation = NoEvaluation
    /\ reputationLog = <<>>
    /\ posts = <<>>
    /\ probing = NotProbing
    /\ reputing = NotReputing
    /\ weights \in WildWeights

WildSpec == WildInit /\ [][RepNext]_vars

----------------------------------------------------------------------------
(* The certifier and the reputation engine side by side: the certifier     *)
(* writes CERTS_FILE, the reputation engine reads it.                      *)

\* Jobs of one trial on the math bank, for two agents
SysStartRequests ==
    [agent_id : CertAgents, capabilities : { <<"math.g1_g12">> },
     n : {1}, pass_threshold : {DEFAULT_PASS_THRESHOLD}]

SysReputationRequests == [agent_id : CertAgents, endpoint : {""}]

SysNext ==
    \/ NextWith(SysStartRequests)
    \/ \E req \in SysReputationRequests : HandleReputation(req)
    \/ RepStep

SysSpec == Init /\ [][SysNext]_vars

----------------------------------------------------------------------------
(* Every writer of the shared logs at once: two jobs and the certifier's   *)
(* handlers, a probe run and the observer's telemetry handler.  An append  *)
(* is append_jsonl: the line is built in memory, the file is opened in     *)
(* append mode by the caller alone and the line is handed to the file in   *)
(* one write when the file is closed, which an append-mode descriptor      *)
(* places at the end of the file as a whole.                               *)

LogStartRequests ==
    [agent_id : {"agent_a"}, capabilities : { <<"math.g1_g12">> },
     n : {1}, pass_threshold : {DEFAULT_PASS_THRESHOLD}]

LogTelemetryRequests ==
    [agent_id : {"agent_a"}, success : {1}, status_code : {200}, fraud_flag : {0}]

LogProbeRequests ==
    [agent_id : {"agent_a"}, endpoint : {ProbeEndpoint},
     capability : {"math.g1_g12"}, n : {1}]

LogNext ==
    \/ NextWith(LogStartRequests)
    \/ \E req \in LogTelemetryRequests : HandleTelemetry(req)
    \/ \E req \in LogProbeRequests : HandleProbe(req)
    \/ ProbeTrial
    \/ ProbeFinish

LogSpec == Init /\ [][LogNext]_vars

----------------------------------------------------------------------------
(* The progress lock (JobRunner._lock, lines 147-167): the steps that take    *)
(* it are split into taking the lock and the guarded write, so that the      *)
(* states in which it is held are visible.                                   *)

\* The job units holding the lock
LockHolders == { j \in DOMAIN threads : threads[j].locked }

\* threading.Lock is free: no job unit and no handler is inside "with self._lock"
LockFree == LockHolders = {} /\ handler.pc # "status_locked"

\* The positions of _run whose next statement is self._update (lines 180, 189,
\* 219, 245)
UpdatePcs == {"setup", "progress", "finish"}

\* The positions of _run in which the job unit is inside call_agent_a2a, inside
\* append_jsonl or in time.sleep (lines 195, 216, 217, 220, 243)
BlockingPcs == {"invoke", "evidence", "results", "cert"}

\* _update, line 166: "with self._lock" entered by the unit of job j
AcquireLock(j) ==
    /\ j \in DOMAIN threads
    /\ threads[j].pc \in UpdatePcs
    /\ ~threads[j].locked
    /\ LockFree
    /\ threads' = [threads EXCEPT ![j].locked = TRUE]
    /\ UNCHANGED <<jobsLog, resultsLog, certsLog, evidence, progress, handler,
                   issued, calls, obsVars>>

\* One step of the unit of job j; a step that writes the progress is taken
\* inside the lock.
LockedRun(j) ==
    /\ j \in DOMAIN threads
    /\ threads[j].pc \in UpdatePcs => threads[j].locked
    /\ Run(j)

\* The guarded write of the unit of job j that ends its "with self._lock"
ReleaseLock(j) ==
    /\ j \in DOMAIN threads
    /\ threads[j].pc \in UpdatePcs
    /\ threads[j].locked
    /\ Run(j)

\* handle, lines 302-305: a status request with a cert_job_id reaches get_status
StatusBegin(job_id) ==
    /\ handler = Idle
    /\ job_id # ""
    /\ handler' = [pc |-> "get_status", job_id |-> job_id]
    /\ UNCHANGED <<jobsLog, resultsLog, certsLog, evidence, progress, threads,
                   issued, calls, obsVars>>

\* get_status, line 162: "with self._lock" entered by the handler
StatusAcquire ==
    /\ handler.pc = "get_status"
    /\ LockFree
    /\ handler' = [handler EXCEPT !.pc = "status_locked"]
    /\ UNCHANGED <<jobsLog, resultsLog, certsLog, evidence, progress, threads,
                   issued, calls, obsVars>>

\* get_status, line 163: the progress is read, the lock left and the reply sent
StatusReturn ==
    /\ handler.pc = "status_locked"
    /\ get_status(handler.job_id).kind \in {"progress", "error"}
    /\ handler' = Idle
    /\ UNCHANGED <<jobsLog, resultsLog, certsLog, evidence, progress, threads,
                   issued, calls, obsVars>>

\* The start requests of the lock specification: jobs of one and two trials
LockStartRequests ==
    [agent_id : {"agent_a"}, capabilities : { <<"math.g1_g12">> },
     n : {1, 2}, pass_threshold : {DEFAULT_PASS_THRESHOLD}]

LockNext ==
    \/ \E req \in LockStartRequests : HandleStart(req)
    \/ LockFree /\ StartJobRegister
    \/ StartJobLaunch
    \/ \E job_id \in StatusInputs : StatusBegin(job_id)
    \/ StatusAcquire
    \/ StatusReturn
    \/ \E j \in Range(JobIds) : AcquireLock(j)
    \/ \E j \in Range(JobIds) : LockedRun(j)

\* The scheduler runs a thread that is inside the lock; nothing is assumed of
\* the agent's answer, of the file system or of the sleep.
LockSpec ==
    /\ Init /\ [][LockNext]_vars
    /\ WF_vars(StatusAcquire)
    /\ \A j \in Range(JobIds) : WF_vars(ReleaseLock(j))

-----------------------------------------------------------------------------
(* The grading functions called on their own (lines 92-112, 196-197) *)

\* Longest of the short texts that are graded
MaxTextLen == 3

\* The characters of the short texts
TextChars == {"a", "B", " "}

ShortTexts == UNION { [1..k -> TextChars] : k \in 0..MaxTextLen }

Letters ==
    <<"a", "b", "c", "d", "e", "f", "g", "h", "i", "j", "k", "l", "m",
      "n", "o", "p", "q", "r", "s", "t", "u">>

\* The text of the one-letter tokens Letters[k], k in ks (a sequence of indices)
TokensText(ks) == Join([k \in 1..Len(ks) |-> <<Letters[ks[k]]>>])

\* A prediction of 13 tokens and a gold answer of 17 tokens that share 9
LongPred == TokensText([k \in 1..13 |-> k])
LongGold == TokensText([k \in 1..17 |-> IF k <= 9 THEN k ELSE k + 4])

\* A prediction of 5 tokens and a gold answer of 5 tokens that share 3
MidPred == TokensText(<<1, 2, 3, 4, 5>>)
MidGold == TokensText(<<1, 2, 3, 6, 7>>)

GradeTexts ==
    ShortTexts \cup {LongPred, LongGold, MidPred, MidGold, <<"\t", "A", "\n", "b", " ">>,
                     <<"a", " ", " ", "b">>}

GradeCaps == {"math.g1_g12", "qa.general", "code.python"}

GradeInputs == [capability : GradeCaps, pred : GradeTexts, gold : GradeTexts]

\* lines 196-197: score = grade_item(capability, pred, gold); ok = int(score >= 1.0)
EvalGrade ==
    /\ evaluation.fn = "grade_item"
    /\ ~evaluation.returned
    /\ \E score \in {grade_item(evaluation.args.capability, evaluation.args.pred,
                                evaluation.args.gold)} :
          evaluation' = [evaluation EXCEPT
                            !.returned = TRUE,
                            !.value = [score |-> score,
                                       ok |-> IF score >= 1 THEN 1 ELSE 0]]
    /\ UNCHANGED <<jobsLog, resultsLog, certsLog, evidence, progress, threads,
                   handler, issued, calls, telemetryLog, probeLog, reputationLog,
                   posts, probing, reputing, weights>>

GradeInit ==
    /\ CertInit /\ ObsInit
    /\ evaluation \in { [fn |-> "grade_item", args |-> a, returned |-> FALSE,
                         value |-> [score |-> 0, ok |-> 0]] : a \in GradeInputs }

GradeSpec == GradeInit /\ [][EvalGrade]_vars

-----------------------------------------------------------------------------
(* The sample of a job worked out on its own (lines 178-184) *)

\* Largest n a sample is drawn for
MaxSampleN == 9

SampleCaps ==
    { <<"math.g1_g12">>, <<"qa.general">>, <<"math.g1_g12", "qa.general">>,
      <<"qa.general", "math.g1_g12">>, <<"none.such">>, <<"none.such", "qa.general">>,
      <<"math.g1_g12", "math.g1_g12">> }

SampleInputs == [capabilities : SampleCaps, n : MinN..MaxSampleN]

\* lines 178-184: tests = load_tests_for(caps); no sample when there are no
\* tests; sample = (tests * ((n // len(tests)) + 1))[:n]
EvalSample ==
    /\ evaluation.fn = "sample"
    /\ ~evaluation.returned
    /\ \E tests \in {load_tests_for(evaluation.args.capabilities)} :
          evaluation' = [evaluation EXCEPT
                            !.returned = TRUE,
                            !.value = IF tests = <<>> THEN <<>>
                                      ELSE SampleOf(tests, evaluation.args.n)]
    /\ UNCHANGED <<jobsLog, resultsLog, certsLog, evidence, progress, threads,
                   handler, issued, calls, telemetryLog, probeLog, reputationLog,
                   posts, probing, reputing, weights>>

SampleInit ==
    /\ CertInit /\ ObsInit
    /\ evaluation \in { [fn |-> "sample", args |-> a, returned |-> FALSE,
                         value |-> <<>>] : a \in SampleInputs }

SampleSpec == SampleInit /\ [][EvalSample]_vars

-----------------------------------------------------------------------------
(* wilson_ci called on its own (lines 48-56) *)

\* (successes, n, k): the interval is taken for (successes, n) and for
\* (k * successes, k * n), both within the n the operators cover
WilsonInputs ==
    { [successes |-> 0, n |-> 0, k |-> 1] } \cup
    { a \in [successes : 0..7, n : DOMAIN WilsonTable, k : 1..7] :
        a.successes <= a.n /\ a.k * a.n \in DOMAIN WilsonTable }

\* wilson_ci(successes, n) and wilson_ci(k * successes, k * n)
EvalWilson ==
    /\ evaluation.fn = "wilson_ci"
    /\ ~evaluation.returned
    /\ \E a \in {evaluation.args} :
          evaluation' = [evaluation EXCEPT
                            !.returned = TRUE,
                            !.value = [base   |-> wilson_ci(a.successes, a.n),
                                       scaled |-> wilson_ci(a.k * a.successes, a.k * a.n)]]
    /\ UNCHANGED <<jobsLog, resultsLog, certsLog, evidence, progress, threads,
                   handler, issued, calls, telemetryLog, probeLog, reputationLog,
                   posts, probing, reputing, weights>>

WilsonInit ==
    /\ CertInit /\ ObsInit
    /\ evaluation \in { [fn |-> "wilson_ci", args |-> a, returned |-> FALSE,
                         value |-> [base |-> <<0, 0>>, scaled |-> <<0, 0>>]]
                        : a \in WilsonInputs }

WilsonSpec == WilsonInit /\ [][EvalWilson]_vars

-----------------------------------------------------------------------------
(* One reputation query and the certifier its requests reach.  A           *)
(* requests.post of the observer (lines 261 and 387) lasts from the sending  *)
(* of the request to the return of the call: the certifier, when the request *)
(* reaches it, handles the start in between, and the step of the observer    *)
(* that follows is the return of the call, with a response of any status or  *)
(* an exception (a timeout may follow a job that was started).  The threads  *)
(* of the jobs are left unscheduled.                                         *)

\* n of a start request that carries none (line 285)
DEFAULT_N == 50

\* The start request the certifier reads from the body of a post
StartOfPost(body) ==
    [agent_id |-> body.agent_id,
     endpoint |-> IF "endpoint" \in DOMAIN body THEN body.endpoint ELSE "",
     capabilities |-> IF "capabilities" \in DOMAIN body THEN body.capabilities ELSE <<>>,
     n |-> IF "n" \in DOMAIN body THEN body.n ELSE DEFAULT_N,
     pass_threshold |-> DEFAULT_PASS_THRESHOLD]

\* The jobs the Job Runner has registered for an agent
JobsStartedFor(agent_id) ==
    { j \in DOMAIN threads : threads[j].job.agent_id = agent_id }

\* The post of decide_actions (line 261) reaches the certifier
DriftAccept ==
    /\ reputing.pc = "decide"
    /\ RecertOutcomes(reputing.probe, reputing.cert_score) = {TRUE}
    /\ jobsLog = <<>>
    /\ AcceptStart(StartOfPost(DriftStart(reputing.health.agent_id)))

\* The post of the handler (line 387) reaches the certifier
EndpointAccept ==
    /\ reputing.pc = "trigger"
    /\ reputing.endpoint # ""
    /\ "recert_requested" \in Range(reputing.actions)
    /\ \A k \in 1..Len(jobsLog) : jobsLog[k].endpoint # reputing.endpoint
    /\ AcceptStart(StartOfPost(EndpointStart(reputing.agent_id, reputing.endpoint)))

RecertRequests == [agent_id : {"agent_a", ""}, endpoint : {ProbeEndpoint, ""}]

RecertNext ==
    \/ \E req \in RecertRequests : reputationLog = <<>> /\ HandleReputation(req)
    \/ RepReadHealth
    \/ RepReadProbe
    \/ RepReadCert
    \/ DriftAccept
    \/ StartJobRegister
    \/ StartJobLaunch
    \/ handler = Idle /\ RepDecide
    \/ RepAppend
    \/ EndpointAccept
    \/ handler = Idle /\ RepTrigger

RecertSpec == RepInit /\ [][RecertNext]_vars

-----------------------------------------------------------------------------
(* The writers of the six logs at once: one job of two trials, the         *)
(* telemetry handler, a probe run and reputation queries.                    *)

AppendStartRequests ==
    [agent_id : {"agent_a"}, capabilities : { <<"math.g1_g12">> },
     n : {MaxTrials}, pass_threshold : {DEFAULT_PASS_THRESHOLD}]

AppendReputationRequests == [agent_id : {"agent_a"}, endpoint : {""}]

AppendNext ==
    \/ NextWith(AppendStartRequests)
    \/ \E req \in LogTelemetryRequests : HandleTelemetry(req)
    \/ \E req \in LogProbeRequests : HandleProbe(req)
    \/ ProbeTrial
    \/ ProbeFinish
    \/ \E req \in AppendReputationRequests : HandleReputation(req)
    \/ RepStep

AppendSpec == Init /\ [][AppendNext]_vars

-----------------------------------------------------------------------------
(* Reputation queries next to probe runs of one trial each: the runs are   *)
(* made by the scheduler thread or by another call of handle, and share the  *)
(* files with the query and nothing else.                                    *)

\* Probe runs in a behaviour
MaxTornRuns == 2

TornProbeRequests ==
    [agent_id : {"agent_a"}, endpoint : {ProbeEndpoint},
     capability : {"math.g1_g12"}, n : {1}]

TornNext ==
    \/ \E req \in TornProbeRequests : Len(probeLog) < MaxTornRuns /\ AcceptProbe(req)
    \/ ProbeTrial
    \/ ProbeFinish
    \/ \E req \in AppendReputationRequests : HandleReputation(req)
    \/ RepStep

TornSpec == Init /\ [][TornNext]_vars

-----------------------------------------------------------------------------
(* Reading the state *)

Terminal == {"done", "error"}

StatusOf(j) == progress[j].status

\* The records of job j in a log of trial records
TrialsIn(log, j) == SelectSeq(log, LAMBDA r : r.job_id = j)

\* The evidence log of job j (empty while the file does not exist)
EvidenceOf(j) ==
    LET path == EvidencePath(threads[j].job.agent_id, j)
    IN  IF path \in DOMAIN evidence THEN evidence[path] ELSE <<>>

\* The certificates issued for job j: a certificate names its job in evidence_uri
CertsOf(j) == SelectSeq(certsLog, LAMBDA c : c.evidence_uri[2] = j)

\* Job j asks for capabilities none of which has an item in the test bank
NoTests(j) ==
    Range(threads[j].job.capabilities)
        \cap { SAMPLE_TESTS[k].capability : k \in 1..Len(SAMPLE_TESTS) } = {}

AllRaised(j) == \A k \in 1..Len(calls[j]) : calls[j][k].raised

----------------------------------------------------------------------------
(* C1 *)

\* C1 as stated: the status of a progress entry changes only along
\* queued -> running, running -> done and running -> error.
C1_StatusStepsAsStated ==
    [][\A j \in DOMAIN progress :
          progress'[j].status # progress[j].status =>
              <<progress[j].status, progress'[j].status>> \in
                  { <<"queued", "running">>, <<"running", "done">>,
                    <<"running", "error">> }]_vars

\* C1, amended: a progress entry is created with status queued, and its status
\* changes only along queued -> running, running -> done, running -> error and
\* queued -> error (setup finds no tests before the job is ever running).
C1_StatusSteps ==
    [][/\ \A j \in DOMAIN progress' \ DOMAIN progress : progress'[j].status = "queued"
       /\ \A j \in DOMAIN progress :
            progress'[j].status # progress[j].status =>
                <<progress[j].status, progress'[j].status>> \in
                    { <<"queued", "running">>, <<"running", "done">>,
                      <<"running", "error">>, <<"queued", "error">> }]_vars

\* One job ended in error and another ran to done.
C1_Witness ==
    \E j, k \in DOMAIN progress : StatusOf(j) = "error" /\ StatusOf(k) = "done"

----------------------------------------------------------------------------
(* C2 *)

\* C2: once a progress entry has status done or error, no step changes it
\* (status, done, total, result or any other key).
C2_TerminalIsFinal ==
    [][\A j \in DOMAIN progress :
          progress[j].status \in Terminal => progress'[j] = progress[j]]_vars

\* A job is terminal while the thread of another job is in its trial loop.
C2_Witness ==
    \E j, k \in DOMAIN progress :
        /\ j # k
        /\ StatusOf(j) \in Terminal
        /\ threads[k].pc \in {"evidence", "results", "progress"}

----------------------------------------------------------------------------
(* C3 *)

\* C3: in every reachable state done <= total for every job.
C3_DoneWithinTotal ==
    \A j \in DOMAIN progress : progress[j].done <= progress[j].total

----------------------------------------------------------------------------
(* C4 *)

\* C4: the certificate of a job with status done has n equal to the number of
\* the job's TrialResults, score equal to s/n for the s results with outcome 1,
\* and lo <= score <= hi.
C4_CertificateMatchesTrials ==
    \A j \in DOMAIN progress :
        StatusOf(j) = "done" =>
            LET cert == progress[j].result
                recs == TrialsIn(resultsLog, j)
                s    == Len(SelectSeq(recs, LAMBDA r : r.ok = 1))
            IN  /\ cert.n = Len(recs)
                /\ cert.score * cert.n = 10000 * s
                /\ cert.ci95[1] <= cert.score
                /\ cert.score <= cert.ci95[2]

----------------------------------------------------------------------------
(* C5 *)

\* A job that called the agent is never in status error; a raised call is
\* recorded as a trial with outcome 0, and the job goes on: at status done it
\* has made, and recorded in both logs, all n trials.
C5_FailuresAbsorbed ==
    \A j \in DOMAIN threads :
        /\ calls[j] # <<>> => StatusOf(j) # "error"
        /\ \A k \in 1..Len(calls[j]) :
              calls[j][k].raised =>
                  IF k <= Len(EvidenceOf(j))
                  THEN EvidenceOf(j)[k].ok = 0 /\ EvidenceOf(j)[k].prediction = ErrorText
                  ELSE threads[j].trial_rec.ok = 0
        /\ (calls[j] # <<>> /\ StatusOf(j) = "done") =>
              /\ Len(calls[j]) = threads[j].job.n
              /\ Len(EvidenceOf(j)) = threads[j].job.n
              /\ Len(TrialsIn(resultsLog, j)) = threads[j].job.n

\* C5 as stated: ... and a job in which every call failed ends with status
\* done, score 0.0 and passed false.
C5_AllFailedAsStated ==
    /\ C5_FailuresAbsorbed
    /\ \A j \in DOMAIN threads :
          (calls[j] # <<>> /\ AllRaised(j) /\ StatusOf(j) = "done") =>
              /\ progress[j].result.score = 0
              /\ progress[j].result.passed = FALSE

\* C5, amended: ... score 0.0, and passed false unless the job's pass
\* threshold is 0 or less.
C5_AllFailed ==
    /\ C5_FailuresAbsorbed
    /\ \A j \in DOMAIN threads :
          (calls[j] # <<>> /\ AllRaised(j) /\ StatusOf(j) = "done") =>
              /\ progress[j].result.score = 0
              /\ progress[j].result.passed = (threads[j].job.pass_threshold <= 0)

\* A job of two trials, both calls raised, is done under the default threshold.
C5_Witness ==
    \E j \in DOMAIN threads :
        /\ Len(calls[j]) = 2
        /\ AllRaised(j)
        /\ StatusOf(j) = "done"
        /\ threads[j].job.pass_threshold = DEFAULT_PASS_THRESHOLD

----------------------------------------------------------------------------
(* C6 *)

\* C6: a job whose capabilities have no test items never calls the agent,
\* writes no TrialResult to either log and gets no certificate, and when its
\* thread has returned its status is error, with a message.
C6_NoTestsNoTrials ==
    \A j \in DOMAIN threads :
        NoTests(j) =>
            /\ calls[j] = <<>>
            /\ EvidenceOf(j) = <<>>
            /\ TrialsIn(resultsLog, j) = <<>>
            /\ CertsOf(j) = <<>>
            /\ StatusOf(j) \in {"queued", "error"}
            /\ threads[j].pc = "exit" =>
                  /\ StatusOf(j) = "error"
                  /\ "message" \in DOMAIN progress[j]
                  /\ "result" \notin DOMAIN progress[j]

\* Such a job has returned, asked for two trials.
C6_Witness ==
    \E j \in DOMAIN threads :
        NoTests(j) /\ threads[j].pc = "exit" /\ threads[j].job.n = 2

----------------------------------------------------------------------------
(* C7 *)

ValidStart(req) == req.capabilities # <<>> /\ req.n >= 1

\* C7: a start request with a missing or empty capability list, or n < 1, is
\* rejected without side effect: the handler never goes on to build a job
\* from it and the jobs log holds no job with n < 1.
C7_InvalidStartRejected ==
    /\ handler.pc # "idle" => ValidStart(handler.req)
    /\ \A k \in 1..Len(jobsLog) : jobsLog[k].n >= 1

----------------------------------------------------------------------------
(* C8 *)

\* C8: the initial progress {done:0, total:n, status:queued} is registered
\* before the thread is started and before start answers, so a status request
\* for an issued id is answered with a progress snapshot; an id that no start
\* issued is answered with the unknown-job error and has no entry.
C8_RegisteredBeforeIssued ==
    /\ \A j \in DOMAIN threads :
          /\ j \in DOMAIN progress
          /\ threads[j].pc = "created" =>
                progress[j] = [done |-> 0, total |-> threads[j].job.n, status |-> "queued"]
    /\ \A j \in issued : StatusReply(j) = [kind |-> "progress", body |-> progress[j]]
    /\ StatusReply(BogusJobId) = [kind |-> "error", error |-> "unknown job_id"]
    /\ DOMAIN progress \subseteq { jobsLog[k].cert_job_id : k \in 1..Len(jobsLog) }

\* A start has answered and the job's thread has not run yet.
C8_Witness ==
    \E j \in issued : threads[j].pc = "setup" /\ StatusOf(j) = "queued"

----------------------------------------------------------------------------
(* C9 *)

\* C9: under fair scheduling every job whose id a start response carried
\* reaches status done or error.
C9_JobsTerminate ==
    \A j \in Range(JobIds) :
        (j \in issued) ~> (j \in DOMAIN progress /\ progress[j].status \in Terminal)

\* Both jobs were issued and are terminal, one of them after real trials.
C9_Witness ==
    /\ issued = Range(JobIds)
    /\ \A j \in issued : StatusOf(j) \in Terminal
    /\ \E j \in issued : Len(calls[j]) = 2

----------------------------------------------------------------------------
(* C10 *)

\* C10: a job with status done has done = total, carries its certificate as
\* result, and exactly one certificate, that one, is in the store for it.
C10_DoneCarriesStoredCertificate ==
    \A j \in DOMAIN progress :
        StatusOf(j) = "done" =>
            /\ progress[j].done = progress[j].total
            /\ "result" \in DOMAIN progress[j]
            /\ CertsOf(j) = <<progress[j].result>>

----------------------------------------------------------------------------
(* C11 *)

\* The positions in the certificate store of the records of agent a
CertPositions(a) == { k \in 1..Len(certsLog) : certsLog[k].agent_id = a }

\* The latest-certificate contract in one state: the answer for a is the
\* record at the greatest position of a's records, or the no-certificate
\* error when a has none.
C11_AnswersLatest ==
    \A a \in CertAgents :
        IF CertPositions(a) = {}
        THEN CertificateReply(a) = [kind |-> "error", error |-> "no certificate found"]
        ELSE \E k \in CertPositions(a) :
                /\ \A m \in CertPositions(a) : m <= k
                /\ CertificateReply(a) = [kind |-> "certificate", body |-> certsLog[k]]

\* C11: the certificate action answers the most recently appended record of
\* the agent or the no-certificate error, and across a step that appends no
\* certificate the answer for every agent stays the same.
C11_LatestCertificate ==
    [][/\ C11_AnswersLatest
       /\ C11_AnswersLatest'
       /\ certsLog' = certsLog =>
              \A a \in CertAgents : CertificateReply(a)' = CertificateReply(a)]_vars

\* Two jobs of one agent are done with different scores, and the store holds
\* both certificates.
C11_Witness ==
    \E j, k \in DOMAIN progress :
        /\ j # k
        /\ StatusOf(j) = "done" /\ StatusOf(k) = "done"
        /\ threads[j].job.agent_id = threads[k].job.agent_id
        /\ progress[j].result.score # progress[k].result.score
        /\ Len(certsLog) = 2

----------------------------------------------------------------------------
(* C12 *)

\* The record c without its signature
Unsigned(c) == [k \in DOMAIN c \ {"signature"} |-> c[k]]

\* C12: every record of the certificate store carries a signature, made
\* under SECRET, whose signed message holds each non-signature field of the
\* record once, with the record's value, and no signature field; signing the
\* record's fields inserted in reverse order gives the same signature.
C12_SignatureCoversFields ==
    \A k \in 1..Len(certsLog) :
        LET c   == certsLog[k]
            sig == c.signature
        IN  /\ sig.key = SECRET
            /\ Len(sig.msg) = Cardinality(DOMAIN Unsigned(c))
            /\ { it[1] : it \in Range(sig.msg) } = DOMAIN Unsigned(c)
            /\ \A it \in Range(sig.msg) : it[2] = c[it[1]]
            /\ sig = hmac_sign(Items(Unsigned(c), CertKeys), SECRET)
            /\ sig = hmac_sign(Items(Unsigned(c), Reverse(CertKeys)), SECRET)

\* The store holds the certificate of a job that ran two trials.
C12_Witness ==
    \E k \in 1..Len(certsLog) : certsLog[k].n = 2 /\ certsLog[k].by_topic # EmptyDict

----------------------------------------------------------------------------
(* C13 *)

\* C13: the reputation of every snapshot, persisted or about to be returned,
\* lies in [0, 1], whatever records the logs hold and whatever the weights.
C13_ReputationBounded ==
    /\ \A k \in 1..Len(reputationLog) :
           /\ reputationLog[k].rep # NaN
           /\ reputationLog[k].rep >= 0
           /\ reputationLog[k].rep <= 10000
    /\ reputing.pc \in {"append", "trigger"} =>
           /\ reputing.rep # NaN
           /\ reputing.rep >= 0
           /\ reputing.rep <= 1000000

\* The weighted sum of what a snapshot records, before clamping
RawOf(s) ==
    FSub(FAdd(FAdd(FMul(weights.avail, s.health.availability),
                   FMul(weights.probe, s.last_probe.success)),
              FMul(weights.cert, s.last_cert_score)),
         FMul(weights.flags, FraudRateOf(s.health)))

\* A snapshot taken from a stored probe success rate above 1 under a weight
\* above 1: the weighted sum is above 1 and the reputation is 1
C13_Witness ==
    \E k \in 1..Len(reputationLog) :
        /\ reputationLog[k].last_probe.success > 10000
        /\ weights.avail = 300
        /\ RawOf(reputationLog[k]) > 1000000
        /\ reputationLog[k].rep = 10000

\* A snapshot whose weighted sum is below 0, and one whose weighted sum is not
\* a number
C13_BelowZero ==
    \E k \in 1..Len(reputationLog) :
        /\ RawOf(reputationLog[k]) # NaN
        /\ RawOf(reputationLog[k]) < 0
        /\ reputationLog[k].rep = 0

C13_NotANumber ==
    \E k \in 1..Len(reputationLog) :
        /\ RawOf(reputationLog[k]) = NaN
        /\ reputationLog[k].rep = 10000

----------------------------------------------------------------------------
(* C14 *)

ActionOrders ==
    { <<"monitor">>,
      <<"monitor", "rate_limit">>,
      <<"monitor", "recert_requested">>,
      <<"monitor", "recert_failed">>,
      <<"monitor", "rate_limit", "recert_requested">>,
      <<"monitor", "rate_limit", "recert_failed">> }

\* C14: the action list of every snapshot starts with monitor, contains
\* rate_limit if and only if the snapshot's reputation is below the rate-limit
\* threshold, and is ordered monitor, rate_limit, then recert_requested or
\* recert_failed.
C14_ActionList ==
    \A k \in 1..Len(reputationLog) :
        LET s == reputationLog[k]
        IN  /\ s.actions[1] = "monitor"
            /\ s.actions \in ActionOrders
            /\ "rate_limit" \in Range(s.actions) <=> s.rep < RATE_LIMIT_THRESH

----------------------------------------------------------------------------
(* C15 *)

HasRecertAction(actions) ==
    "recert_requested" \in Range(actions) \/ "recert_failed" \in Range(actions)

\* The requests posted by decide_actions: those that carry no endpoint
DriftPosts == { k \in 1..Len(posts) : "endpoint" \notin DOMAIN posts[k].body }

RecertSnapshots ==
    { k \in 1..Len(reputationLog) : HasRecertAction(reputationLog[k].actions) }

\* C15: a reputation computation posts a re-certification request, and its
\* action list holds exactly one of recert_requested and recert_failed, if
\* and only if the last certificate score is greater than 0, the last probe
\* run has n >= recert_min_n and score minus probe success is at least
\* recert_delta; otherwise nothing is posted and neither action appears.
C15_DriftTriggersRecert ==
    /\ \A k \in 1..Len(reputationLog) :
           LET s     == reputationLog[k]
               drift == /\ s.last_cert_score > 0
                        /\ s.last_probe.n >= RECERT_MIN_N
                        /\ s.last_cert_score - s.last_probe.success >= RECERT_DELTA
           IN  /\ drift <=> HasRecertAction(s.actions)
               /\ ~("recert_requested" \in Range(s.actions)
                    /\ "recert_failed" \in Range(s.actions))
    /\ Cardinality(DriftPosts) =
           Cardinality(RecertSnapshots)
           + (IF reputing.pc = "append" /\ HasRecertAction(reputing.actions) THEN 1 ELSE 0)

----------------------------------------------------------------------------
(* C16 *)

\* What one step of a reputation query may do to the snapshot log: a query
\* leaves decide_actions with its action list whatever the post did, with
\* recert_failed and not recert_requested when the post raised; the log
\* changes only by compute_reputation appending the snapshot of the inputs
\* read and the actions decided; and a query ends only after that.
C16_Step ==
    /\ reputing.pc = "decide" /\ reputing' # reputing =>
           /\ reputing'.pc = "append"
           /\ posts' # posts /\ posts'[Len(posts')].outcome = "raised" =>
                  /\ "recert_failed" \in Range(reputing'.actions)
                  /\ "recert_requested" \notin Range(reputing'.actions)
    /\ reputationLog' # reputationLog =>
           /\ reputing.pc = "append"
           /\ reputing'.pc = "trigger"
           /\ Len(reputationLog') = Len(reputationLog) + 1
           /\ SubSeq(reputationLog', 1, Len(reputationLog)) = reputationLog
           /\ LET s == reputationLog'[Len(reputationLog')]
              IN  /\ s.agent_id = reputing.agent_id
                  /\ s.health = reputing.health
                  /\ s.last_probe.n = reputing.probe.n
                  /\ s.last_probe.success = reputing.probe.success
                  /\ s.last_cert_score = reputing.cert_score
                  /\ s.actions = reputing.actions
    /\ reputing.pc = "append" /\ reputing' # reputing => reputationLog' # reputationLog
    /\ reputing # NotReputing /\ reputing' = NotReputing => reputing.pc = "trigger"

\* C16: a reputation query whose re-certification request raises still runs
\* to its end with recert_failed in its action list, and every query that
\* reaches compute_reputation appends exactly one snapshot, holding the inputs
\* and the action list, before it answers.
C16_OneSnapshotPerQuery ==
    /\ [][C16_Step]_vars
    /\ \A n \in 0..(MaxSnapshots - 1) :
           (reputing.pc = "health" /\ Len(reputationLog) = n)
               ~> (reputing = NotReputing /\ Len(reputationLog) = n + 1)

\* A finished query whose request raised: the snapshot holds recert_failed,
\* after an earlier query that attempted no request
C16_Witness ==
    /\ reputing = NotReputing
    /\ Len(reputationLog) = 2
    /\ ~HasRecertAction(reputationLog[1].actions)
    /\ "recert_failed" \in Range(reputationLog[2].actions)
    /\ Len(posts) = 1
    /\ posts[1].outcome = "raised"

----------------------------------------------------------------------------
(* C17 *)

\* The positions of job j's certificate in the store
CertOfJob(j) == { k \in 1..Len(certsLog) : certsLog[k].evidence_uri[2] = j }

\* C17: a job that is done has its certificate in the store, and a reputation
\* computation that reads the certificate score of an agent while job j of
\* that agent is done and no certificate of the agent follows j's in the
\* store takes the score of j's certificate as last_cert_score.
C17_Step ==
    /\ \A j \in DOMAIN progress : progress[j].status = "done" => CertOfJob(j) # {}
    /\ reputing.pc = "cert" /\ reputing'.pc = "decide" =>
           \A j \in DOMAIN progress : \A k \in CertOfJob(j) :
               ( /\ progress[j].status = "done"
                 /\ certsLog[k].agent_id = reputing.agent_id
                 /\ \A m \in (k + 1)..Len(certsLog) :
                        certsLog[m].agent_id # reputing.agent_id )
               => reputing'.cert_score = certsLog[k].score

C17_ObservesLatestCertificate == [][C17_Step]_vars

\* Both jobs of agent_a are done with different scores, and a computation
\* for agent_a has read the score of the second
C17_Witness ==
    /\ Len(certsLog) = 2
    /\ certsLog[1].agent_id = "agent_a"
    /\ certsLog[2].agent_id = "agent_a"
    /\ certsLog[1].score = 0
    /\ certsLog[2].score = 10000
    /\ \A j \in Range(JobIds) : j \in DOMAIN progress /\ progress[j].status = "done"
    /\ reputing.pc = "decide"
    /\ reputing.agent_id = "agent_a"
    /\ reputing.cert_score = 10000

----------------------------------------------------------------------------
(* C18 *)

CarriesEndpoint(post) == "endpoint" \in DOMAIN post.body

\* C18: when the handler ends a reputation query, it posts a start request
\* carrying the query's agent id and endpoint if the query supplied an
\* endpoint and the snapshot's action list holds recert_requested, and posts
\* nothing otherwise; no other step posts a request carrying an endpoint.
C18_Step ==
    /\ reputing.pc = "trigger" /\ reputing' = NotReputing =>
           LET s == reputationLog[Len(reputationLog)]
           IN  IF reputing.endpoint # "" /\ "recert_requested" \in Range(s.actions)
               THEN /\ Len(posts') = Len(posts) + 1
                    /\ SubSeq(posts', 1, Len(posts)) = posts
                    /\ CarriesEndpoint(posts'[Len(posts')])
                    /\ posts'[Len(posts')].body.action = "start"
                    /\ posts'[Len(posts')].body.agent_id = s.agent_id
                    /\ posts'[Len(posts')].body.endpoint = reputing.endpoint
               ELSE posts' = posts
    /\ posts' # posts /\ CarriesEndpoint(posts'[Len(posts')]) =>
           /\ reputing.pc = "trigger"
           /\ "recert_requested" \in Range(reputationLog[Len(reputationLog)].actions)

C18_EndpointRequest == [][C18_Step]_vars

\* Two finished queries: the first drifted, its request was answered and the
\* start request with the endpoint followed; the second one's request raised
\* and nothing with an endpoint followed
C18_Witness ==
    /\ reputing = NotReputing
    /\ Len(reputationLog) = 2
    /\ "recert_requested" \in Range(reputationLog[1].actions)
    /\ "recert_failed" \in Range(reputationLog[2].actions)
    /\ Len(posts) = 3
    /\ ~CarriesEndpoint(posts[1])
    /\ CarriesEndpoint(posts[2])
    /\ posts[2].body.agent_id = "agent_a"
    /\ posts[2].body.endpoint = ProbeEndpoint
    /\ ~CarriesEndpoint(posts[3])

----------------------------------------------------------------------------
(* C19 *)

\* The positions of the agent's events in the telemetry log
OwnEvents(a) == { k \in 1..Len(telemetryLog) : telemetryLog[k].agent_id = a }

\* Those of them that have fewer than lb of the agent's events after them
RecentEvents(a, lb) ==
    { k \in OwnEvents(a) : Cardinality({ j \in OwnEvents(a) : j > k }) < lb }

SuccessesIn(ks) == Cardinality({ k \in ks : telemetryLog[k].success = 1 })

Lookbacks == {1, 2, DEFAULT_LOOKBACK}

----------------------------------------------------------------------------
(* C20 *)

\* C20: a probe trial of an exact-numeric capability counts as a success if
\* and only if the normalized reply equals the normalized expected answer.
C20_ProbeExactGrading ==
    probing.pc \in {"trial", "finish"} /\ probing.capability = "math.g1_g12" =>
        \A k \in 1..Len(probing.trials) :
            LET t == probing.trials[k]
            IN  ~t.raised =>
                    (t.ok = 1 <=> normalize(t.pred) = normalize(t.item.check))

----------------------------------------------------------------------------
(* C21 *)

\* The telemetry events that probe trials ingested
ProbeEvents == { k \in 1..Len(telemetryLog) : telemetryLog[k].note # <<>> }

\* The trials of the runs recorded so far
RECURSIVE TrialsRecorded(_)
TrialsRecorded(log) ==
    IF log = <<>> THEN 0 ELSE Max(0, Head(log).n) + TrialsRecorded(Tail(log))

\* One event per trial made, neither more nor fewer, and all for the probed
\* agent
ProbeEventsMatchTrials ==
    /\ Cardinality(ProbeEvents) =
           TrialsRecorded(probeLog) + (IF probing = NotProbing THEN 0 ELSE probing.i)
    /\ \A k \in ProbeEvents : telemetryLog[k].agent_id = "agent_a"

\* What a step may do to the two logs: a trial ingests one event for the
\* agent, whether the call raised or not; the run record is appended once,
\* after the n-th trial, and nothing is ingested with it; a refused request
\* appends nothing.
C21_Frame ==
    /\ ProbeEventsMatchTrials
    /\ probing.pc = "trial" /\ probing' # probing =>
           /\ Len(telemetryLog') = Len(telemetryLog) + 1
           /\ telemetryLog'[Len(telemetryLog')].agent_id = probing.agent_id
           /\ telemetryLog'[Len(telemetryLog')].success = probing'.trials[probing'.i].ok
           /\ probing'.i = probing.i + 1
           /\ probeLog' = probeLog
    /\ probeLog' # probeLog =>
           /\ probing.pc = "finish"
           /\ probing' = NotProbing
           /\ probing.i = Max(0, probing.n)
           /\ Len(probeLog') = Len(probeLog) + 1
           /\ SubSeq(probeLog', 1, Len(probeLog)) = probeLog
           /\ telemetryLog' = telemetryLog
    /\ probing.pc = "finish" /\ probing' # probing => Len(probeLog') = Len(probeLog) + 1
    /\ probing = NotProbing /\ probing' = NotProbing => probeLog' = probeLog

\* C21 as stated: n events and then one run record whose success rate is
\* successes/n and lies in [0, 1]; nothing for a capability without probes.
C21_RateExact ==
    \A k \in 1..Len(probeLog) :
        probeLog[k].n >= 1 =>
            /\ \E s \in 0..probeLog[k].n : probeLog[k].success * probeLog[k].n = 10000 * s
            /\ probeLog[k].success >= 0
            /\ probeLog[k].success <= 10000

C21_ProbeFrameAsStated == [][C21_Frame]_vars /\ []C21_RateExact

\* The successes of the run at position k of the probe log, counted on the
\* events of its trials (the runs of one behaviour do not overlap)
SuccessesOfRun(k) ==
    LET before == TrialsRecorded(SubSeq(probeLog, 1, k - 1))
        mine   == { e \in ProbeEvents :
                      /\ Cardinality({ f \in ProbeEvents : f < e }) >= before
                      /\ Cardinality({ f \in ProbeEvents : f < e }) < before + probeLog[k].n }
    IN  Cardinality({ e \in mine : telemetryLog[e].success = 1 })

\* C21, amended: the success rate is successes/n rounded to 4 decimal places.
C21_RateRounded ==
    \A k \in 1..Len(probeLog) :
        probeLog[k].n >= 1 =>
            /\ probeLog[k].success = Round4(SuccessesOfRun(k), probeLog[k].n)
            /\ probeLog[k].success >= 0
            /\ probeLog[k].success <= 10000

C21_ProbeFrame == [][C21_Frame]_vars /\ []C21_RateRounded

\* A recorded run of 3 trials of which one raised and one succeeded, next to
\* an event that another caller ingested
C21_Witness ==
    /\ Len(probeLog) = 1
    /\ probeLog[1].n = 3
    /\ probeLog[1].success = 3333
    /\ Cardinality(ProbeEvents) = 3
    /\ \E k \in ProbeEvents : telemetryLog[k].status_code = 500
    /\ probing = NotProbing

----------------------------------------------------------------------------
(* C22 *)

WholeTrial(r) ==
    DOMAIN r = {"job_id", "agent_id", "capability", "topic", "question", "gold",
                "prediction", "ok"}

WholeCert(c) == DOMAIN c = Range(CertKeys) \cup {"signature"}

WholeEvent(e) == DOMAIN e = {"agent_id", "success", "status_code", "fraud_flag", "note"}

WholeRun(r) == DOMAIN r = {"agent_id", "endpoint", "capability", "n", "success"}

\* new is old, or old with one record after it
GrownByOne(old, new) ==
    /\ Len(new) = Len(old) + 1
    /\ SubSeq(new, 1, Len(old)) = old

\* Every record of the four logs is a whole record
LogsWhole ==
    /\ \A k \in 1..Len(resultsLog) : WholeTrial(resultsLog[k])
    /\ \A k \in 1..Len(certsLog) : WholeCert(certsLog[k])
    /\ \A k \in 1..Len(telemetryLog) : WholeEvent(telemetryLog[k])
    /\ \A k \in 1..Len(probeLog) : WholeRun(probeLog[k])

\* Nothing a writer appended is missing: the global results log holds, job by
\* job, the records of the job's own evidence file (less the one the job is
\* about to append), every done job has one certificate, and every probe
\* trial has its event
NothingLost ==
    /\ \A j \in DOMAIN threads :
           TrialsIn(resultsLog, j) =
               IF threads[j].pc = "results"
               THEN SubSeq(EvidenceOf(j), 1, Len(EvidenceOf(j)) - 1)
               ELSE EvidenceOf(j)
    /\ \A j \in DOMAIN progress :
           progress[j].status = "done" => Cardinality(CertOfJob(j)) = 1
    /\ ProbeEventsMatchTrials

\* C22: with several jobs, a probe run and the handlers appending at once,
\* every log only ever grows by one whole record at its end, each writer's
\* append puts its record there, and no appended record is lost or changed.
C22_Step ==
    /\ LogsWhole
    /\ NothingLost
    /\ resultsLog' = resultsLog \/ GrownByOne(resultsLog, resultsLog')
    /\ certsLog' = certsLog \/ GrownByOne(certsLog, certsLog')
    /\ telemetryLog' = telemetryLog \/ GrownByOne(telemetryLog, telemetryLog')
    /\ probeLog' = probeLog \/ GrownByOne(probeLog, probeLog')
    /\ \A j \in DOMAIN threads :
           /\ threads[j].pc = "results" /\ threads'[j].pc # "results" =>
                  resultsLog' = Append(resultsLog, threads[j].trial_rec)
           /\ threads[j].pc = "cert" /\ threads'[j].pc # "cert" =>
                  /\ GrownByOne(certsLog, certsLog')
                  /\ certsLog'[Len(certsLog')].evidence_uri[2] = j

-----------------------------------------------------------------------------
(* C23 *)

\* At most one of the job units and the status handler is inside the lock.
MutualExclusion ==
    /\ Cardinality(LockHolders) <= 1
    /\ handler.pc = "status_locked" => LockHolders = {}

\* No job unit is inside the lock while it is in an agent invocation, a log
\* append or the sleep.
LockNotHeldWhileBlocking ==
    \A j \in DOMAIN threads : threads[j].pc \in BlockingPcs => ~threads[j].locked

\* C23: the progress lock is never held by a job unit that is inside an agent
\* invocation, a log append or the rate-limit sleep, and a get_status call
\* waiting for the lock acquires it whatever the other threads do, with no
\* agent call, append or sleep having to finish first.
C23_LockNeverBlocks ==
    /\ [](MutualExclusion /\ LockNotHeldWhileBlocking)
    /\ (handler.pc = "get_status") ~> (handler.pc = "status_locked")

\* A status request waits for the lock that one job unit holds while the other
\* unit is inside an agent invocation.
C23_Witness ==
    /\ handler.pc = "get_status"
    /\ \E j \in LockHolders : threads[j].pc = "progress"
    /\ \E j \in DOMAIN threads : threads[j].pc = "invoke" /\ ~threads[j].locked

-----------------------------------------------------------------------------
(* C24 *)

\* A text with every run of whitespace collapsed to one blank, character by
\* character; last is the character written last.
RECURSIVE Collapse(_, _)
Collapse(t, last) ==
    IF t = <<>> THEN <<>>
    ELSE IF IsSpace(Head(t))
         THEN IF last = " " THEN Collapse(Tail(t), " ")
              ELSE <<" ">> \o Collapse(Tail(t), " ")
         ELSE <<Head(t)>> \o Collapse(Tail(t), Head(t))

\* Trimmed, lower-cased and whitespace-collapsed
Normalized(t) == Collapse(LowerText(Strip(t)), "")

TokenSet(t) == Range(Split(Normalized(t)))

\* The token-set F1 of two texts is at least 0.6, on the reals:
\* F1 = 2*tp/(|p| + |g|), and 0 when a set is empty or nothing is shared
F1OnRealsAtLeastSixTenths(pred, gold) ==
    LET p  == TokenSet(pred)
        g  == TokenSet(gold)
        tp == Cardinality(p \cap g)
    IN  /\ p # {} /\ g # {} /\ tp > 0
        /\ 10 * 2 * tp >= 6 * (Cardinality(p) + Cardinality(g))

\* The outcome the grading rule gives
GradeExpected(a) ==
    IF a.capability = "math.g1_g12"
    THEN IF Normalized(a.pred) = Normalized(a.gold) THEN 1 ELSE 0
    ELSE IF F1OnRealsAtLeastSixTenths(a.pred, a.gold) THEN 1 ELSE 0

Graded == evaluation.fn = "grade_item" /\ evaluation.returned

\* C24: the outcome of grading (capability, prediction, gold) is 0 or 1; for
\* the exact-numeric capability it is 1 iff the trimmed, lower-cased,
\* whitespace-collapsed prediction equals the equally normalized gold, for
\* every other capability it is 1 iff the token-set F1 of the normalized
\* prediction and gold is at least 0.6 (0 when a token set is empty or no
\* token is shared).
C24_GradingRule ==
    Graded =>
        /\ evaluation.value.ok \in {0, 1}
        /\ evaluation.value.score = evaluation.value.ok
        /\ evaluation.value.ok = GradeExpected(evaluation.args)

\* The rule holds for every input whose F1 is not exactly 3/5 computed short.
GradingRuleOffShortTies ==
    Graded /\ f1_score(evaluation.args.pred, evaluation.args.gold)[3] = 0 =>
        /\ evaluation.value.ok \in {0, 1}
        /\ evaluation.value.ok = GradeExpected(evaluation.args)

\* An F1 of exactly 3/5 that the code grades 1 (5 tokens a side, 3 shared)
GradedTieMet ==
    /\ Graded
    /\ evaluation.args.capability = "qa.general"
    /\ evaluation.args.pred = MidPred /\ evaluation.args.gold = MidGold
    /\ evaluation.value.ok = 1

-----------------------------------------------------------------------------
(* C25 *)

\* The items of the requested capabilities among the first k items of the
\* bank, in the order of the bank
RECURSIVE FilteredBank(_, _)
FilteredBank(capabilities, k) ==
    IF k = 0 THEN <<>>
    ELSE IF \E c \in Range(capabilities) : SAMPLE_TESTS[k].capability = c
         THEN Append(FilteredBank(capabilities, k - 1), SAMPLE_TESTS[k])
         ELSE FilteredBank(capabilities, k - 1)

Sampled == evaluation.fn = "sample" /\ evaluation.returned

\* C25: for a non-empty filtered bank of length L and any n >= 1 the sample has
\* exactly n items and its i-th item, counting from 0, is bank item i mod L.
C25_SampleCycles ==
    Sampled =>
        LET bank == FilteredBank(evaluation.args.capabilities, Len(SAMPLE_TESTS))
            L    == Len(bank)
            n    == evaluation.args.n
        IN  L >= 1 /\ n >= 1 =>
                /\ Len(evaluation.value) = n
                /\ \A i \in 0..(n - 1) : evaluation.value[i + 1] = bank[(i % L) + 1]

\* A sample of 7 items from the three math items: the bank is gone through
\* twice and the seventh item is the first of the bank again.
C25_Witness ==
    /\ Sampled
    /\ evaluation.args.capabilities = <<"math.g1_g12">>
    /\ evaluation.args.n = 7
    /\ Len(evaluation.value) = 7
    /\ evaluation.value[7] = SAMPLE_TESTS[1]
    /\ evaluation.value[6] = SAMPLE_TESTS[3]

-----------------------------------------------------------------------------
(* C26 *)

\* The outcomes recorded for job j in the global results log
OutcomesOf(j) ==
    LET recs == TrialsIn(resultsLog, j) IN [k \in 1..Len(recs) |-> recs[k].ok]

Completed(j) == j \in DOMAIN progress /\ StatusOf(j) = "done"

\* successes/n >= pass threshold on the recorded outcomes, n >= 1
MeetsThreshold(j) ==
    10000 * SumSeq(OutcomesOf(j)) >= threads[j].job.pass_threshold * threads[j].job.n

AllCorrect(j) == \A k \in 1..Len(OutcomesOf(j)) : OutcomesOf(j)[k] = 1

PassedRuleOfTrials ==
    \A j \in DOMAIN progress :
        Completed(j) /\ threads[j].job.n >= 1 =>
            /\ progress[j].result.passed <=> MeetsThreshold(j)
            /\ AllCorrect(j) =>
                  /\ progress[j].result.score = 10000
                  /\ progress[j].result.passed
                  /\ progress[j].result.ci95[1] > 0

\* A completed job of two trials, both graded correct, under the default
\* threshold: score 1.0, passed
AllCorrectPassed ==
    \E j \in DOMAIN progress :
        /\ Completed(j)
        /\ threads[j].job.n = 2
        /\ threads[j].job.pass_threshold = DEFAULT_PASS_THRESHOLD
        /\ OutcomesOf(j) = <<1, 1>>
        /\ progress[j].result.passed
        /\ progress[j].result.score = 10000

-----------------------------------------------------------------------------
(* C27 *)

\* The calls of job j so far are the questions of its sample, one call for
\* each trial begun, in the order of the sample.
OneCallPerTrial(j) ==
    LET sample == SampleFor(threads[j].job)
    IN  /\ Len(calls[j]) <= Len(sample)
        /\ \A k \in 1..Len(calls[j]) : calls[j][k].question = sample[k].question
        /\ Len(TrialsIn(resultsLog, j)) <= Len(calls[j])
        /\ Len(calls[j]) <= Len(TrialsIn(resultsLog, j)) + 1

\* C27: the target agent is invoked exactly once per trial and never retried:
\* a job that has reached status done with n trials has made exactly n
\* invocations, and the call after a failed invocation carries the next
\* trial's question.
C27_InvokedOncePerTrial ==
    \A j \in DOMAIN threads :
        /\ load_tests_for(threads[j].job.capabilities) # <<>> => OneCallPerTrial(j)
        /\ Completed(j) =>
              /\ Len(calls[j]) = Len(TrialsIn(resultsLog, j))
              /\ Len(calls[j]) = Max(0, threads[j].job.n)

\* A completed job of two trials whose first call raised: two calls, the second
\* one with the second question of the bank.
C27_Witness ==
    \E j \in DOMAIN threads :
        /\ Completed(j)
        /\ threads[j].job.n = 2
        /\ Len(calls[j]) = 2
        /\ calls[j][1].raised
        /\ calls[j][1].question = SAMPLE_TESTS[1].question
        /\ calls[j][2].question = SAMPLE_TESTS[2].question

-----------------------------------------------------------------------------
(* C28 *)

WilsonReturned == evaluation.fn = "wilson_ci" /\ evaluation.returned

\* The ends before they are clamped: center - margin <= 1, center + margin >= 0
\* and margin >= 0 (the square root is taken of a number that is not negative)
UnclampedInOrder(s, n) ==
    /\ WX(s, n) >= 0
    /\ WilsonLe(FALSE, s, n, 20000)
    /\ WilsonGe(TRUE, s, n, 0)

\* C28: for every n >= 1 and every s with 0 <= s <= n the Wilson interval
\* [lo, hi] returned for (s, n) satisfies 0 <= lo <= hi <= 1.
C28_WilsonWithinUnit ==
    WilsonReturned /\ evaluation.args.n >= 1 =>
        /\ 0 <= evaluation.value.base[1]
        /\ evaluation.value.base[1] <= evaluation.value.base[2]
        /\ evaluation.value.base[2] <= 10000
        /\ UnclampedInOrder(evaluation.args.successes, evaluation.args.n)

\* The interval of 7 successes in 7 trials: the upper end is clamped to 1 and
\* the lower end is 0.6457
C28_Witness ==
    /\ WilsonReturned
    /\ evaluation.args.successes = 7 /\ evaluation.args.n = 7
    /\ evaluation.value.base = <<6457, 10000>>

-----------------------------------------------------------------------------
(* C29 *)

Width(ci) == ci[2] - ci[1]

\* C29: for a fixed score s/n the width hi - lo of the Wilson interval of
\* (k*s, k*n), k > 1, is smaller than that of (s, n).
C29_WidthDecreases ==
    WilsonReturned /\ evaluation.args.n >= 1 /\ evaluation.args.k > 1 =>
        Width(evaluation.value.scaled) < Width(evaluation.value.base)

\* 1 success in 2 trials against 3 in 6: width 0.8110 against 0.6248
C29_Witness ==
    /\ WilsonReturned
    /\ evaluation.args = [successes |-> 1, n |-> 2, k |-> 3]
    /\ Width(evaluation.value.base) = 8110
    /\ Width(evaluation.value.scaled) = 6248

-----------------------------------------------------------------------------
(* C30 *)

\* The steps of the trials of job j are in order: at most one call ahead of
\* the evidence log, the evidence log at most one record ahead of the job's
\* records in the global log and otherwise equal to them, those at most one
\* ahead of done, and no call of trial i + 1 before done = i is published.
TrialsInOrder(j) ==
    LET done == progress[j].done
        res  == TrialsIn(resultsLog, j)
        ev   == EvidenceOf(j)
        c    == Len(calls[j])
    IN  /\ Len(res) \in {done, done + 1}
        /\ Len(ev) \in {Len(res), Len(res) + 1}
        /\ SubSeq(ev, 1, Len(res)) = res
        /\ c \in {Len(ev), Len(ev) + 1}
        /\ c <= done + 1
        /\ \A k \in 1..Len(ev) : ev[k].question = calls[j][k].question

\* C30: within one job the trials are sequential and each trial invokes,
\* grades, appends the TrialResult to the job's evidence log, appends it to the
\* global results log and sets done = i, in this order: the job's TrialResults
\* in the global log number done or done + 1, the evidence log holds the same
\* records in the same order, at most one ahead, and trial i + 1 is not invoked
\* before done = i is visible.
C30_TrialStepsInOrder ==
    \A j \in DOMAIN threads : j \in DOMAIN progress => TrialsInOrder(j)

\* The first trial of a job has been appended to both logs and done is still
\* 0, while the first trial of another job is in its evidence log only.
C30_Witness ==
    \E j, h \in DOMAIN threads :
        /\ j # h
        /\ j \in DOMAIN progress /\ h \in DOMAIN progress
        /\ progress[j].done = 0
        /\ Len(TrialsIn(resultsLog, j)) = 1
        /\ Len(EvidenceOf(j)) = 1
        /\ Len(EvidenceOf(h)) = 1
        /\ Len(TrialsIn(resultsLog, h)) = 0

-----------------------------------------------------------------------------
(* C31 *)

\* C31: a single reputation query causes at most one certification job to be
\* started at the Job Runner for the queried agent, whether or not the query
\* supplies an endpoint (RecertSpec runs one query).
C31_OneJobPerQuery ==
    \A a \in ObsAgents : Cardinality(JobsStartedFor(a)) <= 1

\* A query without an endpoint has started one job and is answered.
OneJobWithoutEndpoint ==
    /\ Len(reputationLog) = 1
    /\ reputing = NotReputing
    /\ Len(posts) = 1
    /\ Cardinality(JobsStartedFor("agent_a")) = 1

\* Without an endpoint no query starts more than one job.
OneJobPerQueryWithoutEndpoint ==
    (reputing # NotReputing /\ reputing.endpoint = "")
        => Cardinality(JobsStartedFor("agent_a")) <= 1

-----------------------------------------------------------------------------
(* C32 *)

\* C32: recert_requested is in the action list of a snapshot only if the Job
\* Runner accepted the start request and registered a job for the agent; in
\* every other outcome of the request the list has recert_failed.
C32_RequestedMeansStarted ==
    \A k \in 1..Len(reputationLog) :
        LET snap == reputationLog[k]
        IN  /\ "recert_requested" \in Range(snap.actions)
                => JobsStartedFor(snap.agent_id) # {}
            /\ (Len(posts) >= 1 /\ JobsStartedFor(snap.agent_id) = {})
                => "recert_failed" \in Range(snap.actions)

\* recert_failed after a post that raised, and no job started
FailedAfterRaise ==
    /\ Len(reputationLog) = 1
    /\ "recert_failed" \in Range(reputationLog[1].actions)
    /\ posts[1].outcome = "raised"
    /\ JobsStartedFor("agent_a") = {}

\* A post that raised is never followed by recert_requested.
RaisedMeansFailed ==
    \A k \in 1..Len(reputationLog) :
        (Len(posts) >= 1 /\ posts[1].outcome = "raised")
            => /\ "recert_failed" \in Range(reputationLog[k].actions)
               /\ ~("recert_requested" \in Range(reputationLog[k].actions))

-----------------------------------------------------------------------------
(* C33 *)

\* A step changes the thread of job j
StepOf(j) == j \in DOMAIN threads /\ j \in DOMAIN threads' /\ threads'[j] # threads[j]

\* The entries of the jobs other than j are left as they are
OthersUnchanged(j) ==
    \A h \in DOMAIN progress : h # j => h \in DOMAIN progress' /\ progress'[h] = progress[h]

\* The progress entry of job j shows every update its thread has made so far
\* (jobs whose capabilities have test items)
Published(j) ==
    LET t == threads[j]
    IN  /\ j \in DOMAIN progress
        /\ progress[j].total = t.job.n
        /\ IF t.pc \in {"created", "setup"}
           THEN progress[j].status = "queued" /\ progress[j].done = 0
           ELSE /\ progress[j].done = t.i - 1
                /\ progress[j].status = (IF t.pc = "exit" THEN "done" ELSE "running")

\* The ids handed out so far are pairwise distinct.
IdsDistinct ==
    \A k, m \in 1..Len(jobsLog) :
        k # m => jobsLog[k].cert_job_id # jobsLog[m].cert_job_id

C33_Step ==
    /\ \A j \in Range(JobIds) : StepOf(j) => OthersUnchanged(j)
    /\ handler.pc = "start_job" /\ handler' # handler
          => /\ OthersUnchanged(handler.job.cert_job_id)
             /\ ~(handler.job.cert_job_id \in DOMAIN progress)
    /\ issued' # issued
          => \E id \in (Range(JobIds) \ issued) : issued' = issued \cup {id}

\* C33: with jobs running concurrently and status queries interleaved, a step
\* of one job's execution unit changes only that job's progress entry, no
\* progress update is lost, and every job id returned by start is distinct
\* from all ids returned earlier.
C33_ProgressIsolated ==
    /\ [][C33_Step]_vars
    /\ [](IdsDistinct /\ \A j \in DOMAIN threads : Published(j))

\* One job is done and the other has published done = 1 of 1 while a status
\* query holds the lock.
C33_Witness ==
    /\ handler.pc = "status_locked"
    /\ \E j, h \in DOMAIN threads :
          /\ j # h
          /\ progress[j].status = "done"
          /\ progress[h].status = "running" /\ progress[h].done = 1

-----------------------------------------------------------------------------
(* C34 *)

\* old is new cut to the length of old
IsPrefix(old, new) == Len(old) <= Len(new) /\ SubSeq(new, 1, Len(old)) = old

C34_Step ==
    /\ IsPrefix(jobsLog, jobsLog')
    /\ IsPrefix(resultsLog, resultsLog')
    /\ IsPrefix(certsLog, certsLog')
    /\ IsPrefix(telemetryLog, telemetryLog')
    /\ IsPrefix(probeLog, probeLog')
    /\ IsPrefix(reputationLog, reputationLog')

\* C34: every persisted log (jobs, trial results, certificates, telemetry, probe
\* runs, reputation snapshots) is append-only: a step leaves the records a log
\* holds in place and unchanged, so the contents at an earlier state are a
\* prefix of the contents at every later state.
C34_LogsAppendOnly == [][C34_Step]_vars

\* Every log has been written, the results and reputation logs twice.
C34_Witness ==
    /\ Len(jobsLog) = 1
    /\ Len(resultsLog) = 2
    /\ Len(certsLog) = 1
    /\ Len(telemetryLog) >= 2
    /\ Len(probeLog) = 1
    /\ Len(reputationLog) = 2
    /\ reputationLog[1] # reputationLog[2]

-----------------------------------------------------------------------------
(* C35 *)

\* Each read of compute_reputation takes the log as it is at that step and
\* keeps what the earlier reads returned.
ReadsCurrent ==
    /\ reputing.pc = "health" /\ reputing'.pc = "probe" =>
         reputing'.health = health_for_agent(reputing.agent_id, DEFAULT_LOOKBACK)
    /\ reputing.pc = "probe" /\ reputing'.pc = "cert" =>
         /\ reputing'.probe = ProbeOrDefault(reputing.agent_id)
         /\ reputing'.health = reputing.health
    /\ reputing.pc = "cert" /\ reputing'.pc = "decide" =>
         /\ reputing'.cert_score = last_cert_score(reputing.agent_id)
         /\ reputing'.health = reputing.health
         /\ reputing'.probe = reputing.probe

\* A probe run is never held up by a reputation computation in progress.
NoIsolation ==
    reputing # NotReputing =>
        /\ probing.pc = "trial" => ENABLED ProbeTrial
        /\ probing.pc = "finish" => ENABLED ProbeFinish

\* C35: a reputation computation reads the telemetry log, the probe-run log and
\* the certificate store in separate steps, each read taking its log as it is at
\* that step, and nothing holds up the appends of a running probe in between.
C35_ReadsNotIsolated == [][ReadsCurrent]_vars /\ []NoIsolation

\* The snapshot written counts the telemetry event of the second probe run in
\* its health while its last_probe is the first run: the second run was
\* appended only after the snapshot.
C35_Witness ==
    /\ Len(probeLog) = 2
    /\ probeLog[1].success # probeLog[2].success
    /\ \E k \in 1..Len(reputationLog) :
         /\ reputationLog[k].health.events = 2
         /\ reputationLog[k].last_probe.n = 1
         /\ reputationLog[k].last_probe.success = probeLog[1].success

\* The snapshot written holds the second run as last_probe and a health that
\* counts one event: no instant had both, the run follows its event.
TornSnapshot ==
    /\ Len(probeLog) = 2
    /\ probeLog[1].success # probeLog[2].success
    /\ \E k \in 1..Len(reputationLog) :
         /\ reputationLog[k].health.events = 1
         /\ reputationLog[k].last_probe.success = probeLog[2].success

\* At every instant the events ingested cover the runs recorded.
RunsFollowEvents == Len(telemetryLog) >= Len(probeLog)

============================================================================
